---- MODULE Spec2Model ----
(***************************************************************************)
(* PodcastHarvester: the per-channel discovery index (.channel_index.json), *)
(* the per-channel download-control ledger (.download_control.json) and    *)
(* the set difference that decides what a harvest run fetches.             *)
(*                                                                         *)
(* Python dicts are functions whose DOMAIN is the set of keys present, so  *)
(* "key in d", d.get(key, default) and d[key] = v keep their meaning.      *)
(* Dates (cutoff "YYYY-MM-DD", upload "YYYYMMDD") are numbered 1..NumDates *)
(* in calendar order, so string comparison and sorted() are < on numbers;  *)
(* an empty upload date is NoDate. datetime.now() is the clock `now`.      *)
(***************************************************************************)
EXTENDS Integers, Sequences, FiniteSets, TLC

VARIABLES
    index_file,    \* .channel_index.json of the channel: [state, data]
    run,           \* the harvest run in progress (download_channel_with_index)
    disk,          \* the channel directory: one record per item subfolder
    control_file,  \* .download_control.json of the channel: [state, data]
    config,        \* the channel's entry of channels_config.json
    now,           \* datetime.now(), ticking once per harvest run
    lists,         \* two lists of discovered videos handed to the merge
    merged,        \* what the merges of `lists` returned
    legacy,        \* an index record of an earlier release, as read from its file
    migrated,      \* what loading or repairing `legacy` returned
    jobs,          \* the harvester processes working one channel directory at once
    old_indexes,   \* the channel's date-specific index files, by the date in their name
    item,          \* one video folder: its transcript chunks and summary artifacts
    summarizer,    \* the summarizer's run on that folder (process_video_folder)
    llm_call,      \* one call_llm_api: the service's responses and what it returned
    subtitles,     \* the parsed transcript given to create_5min_chunks
    chunk_duration, \* the window given to create_5min_chunks, in seconds
    chunks,        \* what create_5min_chunks returned
    text_length,   \* the length of the text given to call_llm_api
    max_context,   \* the configured context_length
    truncated_text, \* the text call_llm_api puts in the request
    batch,         \* the summarizer's run over the selected channels (its main)
    harvest        \* the harvester's run over the configured channels (its main)

vars == <<index_file, run, disk, control_file, config, now, lists, merged, legacy, migrated,
          jobs, old_indexes, item, summarizer, llm_call, subtitles, chunk_duration, chunks,
          text_length, max_context, truncated_text, batch, harvest>>

summaryVars == <<item, summarizer, llm_call>>

\* the transcript segmentation
segmentVars == <<subtitles, chunk_duration, chunks>>

\* the context truncation
truncateVars == <<text_length, max_context, truncated_text>>

textVars == <<segmentVars, truncateVars>>

\* what the harvester's and the summarizer's single-folder operations never touch
restVars == <<textVars, batch, harvest>>

\* the inputs and results of the operations checked as pure functions
pureVars == <<lists, merged, legacy, migrated>>

\* what the single harvest run, the tools and the pure operations leave alone
otherVars == <<jobs, old_indexes, summaryVars, restVars>>

----------------------------------------------------------------------------
(* Bounds of the model *)

NumFolders == 2
NumDates == 2
MaxList == 2
MaxClock == 3

NumOldFiles == 3
NumChunks == 3
MaxRetries == 3
MaxEvents == 4
NumChannels == 2
MaxVideoFolders == 2

Ids == {"X", "Y"}
Titles == {"a", "b", "ab"}
Folders == 1..NumFolders
Dates == 1..NumDates
NoDate == 0
UnknownDate == -1

----------------------------------------------------------------------------
(* Python dict and list helpers *)

EmptyDict == <<>>

Has(d, k) == k \in DOMAIN d

Get(d, k, default) == IF k \in DOMAIN d THEN d[k] ELSE default

Put(d, k, v) == [x \in DOMAIN d \cup {k} |-> IF x = k THEN v ELSE d[x]]

Range(s) == {s[i] : i \in DOMAIN s}

SeqsUpTo(S, n) == UNION {[1..k -> S] : k \in 0..n}

RECURSIVE SetToList(_)
SetToList(S) ==
    IF S = {} THEN <<>>
    ELSE LET x == CHOOSE y \in S : TRUE IN <<x>> \o SetToList(S \ {x})

\* list(d.keys()): every key once
KeysList(d) == SetToList(DOMAIN d)

\* sorted(list)
Sorted(s) == SortSeq(s, LAMBDA a, b : a < b)

\* list.append(x); list = sorted(list), whether or not x is in the list
AppendAlways(s, x) == Sorted(Append(s, x))

\* if x not in list: list.append(x); list = sorted(list)
AppendSorted(s, x) == IF x \in Range(s) THEN s ELSE Sorted(Append(s, x))

----------------------------------------------------------------------------
(* IndexStore: podcast_harvester.py *)

\* 'webpage_url': video_data.get('webpage_url', '')
NoUrl == ""

\* the address of the video's page, which names the video by its id
WatchUrl(i) == i

Video(i, t, d) == [id |-> i, title |-> t, upload_date |-> d, webpage_url |-> WatchUrl(i)]

\* len(str(video)): the keys and the punctuation are the same for every
\* video, so only the field contents make a difference.
SerializedLen(v) == Len(v.id) + Len(v.title) + (IF v.upload_date = NoDate THEN 0 ELSE 8)

\* {video['id']: video for video in videos}: the last copy of an id wins
RECURSIVE DictFromList(_)
DictFromList(videos) ==
    IF videos = <<>> THEN EmptyDict
    ELSE LET n == Len(videos)
         IN Put(DictFromList(SubSeq(videos, 1, n - 1)), videos[n].id, videos[n])

KeepLargest(existing_videos, video) ==
    IF video.id \notin DOMAIN existing_videos
    THEN Put(existing_videos, video.id, video)
    ELSE IF SerializedLen(video) > SerializedLen(existing_videos[video.id])
         THEN Put(existing_videos, video.id, video)
         ELSE existing_videos

KeepLatest(existing_videos, video) == Put(existing_videos, video.id, video)

MergeVideo(existing_videos, video) == KeepLargest(existing_videos, video)

RECURSIVE MergeVideos(_, _)
MergeVideos(existing_videos, new_videos) ==
    IF new_videos = <<>> THEN existing_videos
    ELSE MergeVideos(MergeVideo(existing_videos, Head(new_videos)), Tail(new_videos))

HistoryEntry(cutoff, created, total, source) ==
    [cutoff_date |-> cutoff, created_date |-> created,
     total_videos |-> total, source_file |-> source]

update_unified_index(existing_index, new_videos, cutoff_date, t) ==
    LET existing_videos == MergeVideos(Get(existing_index, "videos", EmptyDict), new_videos)
        u1 == Put(existing_index, "videos", existing_videos)
        u2 == Put(u1, "video_ids", KeysList(existing_videos))
        u3 == Put(u2, "total_videos", Cardinality(DOMAIN existing_videos))
        u4 == Put(u3, "last_updated", t)
        u5 == Put(u4, "current_cutoff_date", cutoff_date)
        u6 == Put(u5, "cutoff_dates", AppendSorted(Get(u5, "cutoff_dates", <<>>), cutoff_date))
    IN Put(u6, "index_history",
           Append(Get(u6, "index_history", <<>>),
                  HistoryEntry(cutoff_date, t, Len(new_videos), "updated_existing")))

\* save_index_file: what is written to .channel_index.json; the caller's
\* dict is updated in place, so this is also the caller's index_data.
save_index_file(cutoff_date, index_data, t) ==
    LET d1 == Put(index_data, "cutoff_dates",
                  AppendSorted(Get(index_data, "cutoff_dates", <<>>), cutoff_date))
        d2 == Put(d1, "last_updated", t)
    IN Put(d2, "current_cutoff_date", cutoff_date)

\* a run that looks at no index file
LoadNothing(file, cutoff_date, t) == EmptyDict

\* load_index_file: None (absent, unparsable) is the empty dict, which the
\* caller's "if not index_data" treats alike.
load_index_file(file, cutoff_date, t) ==
    IF file.state # "ok" THEN EmptyDict
    ELSE LET d0 == file.data
             d1 == IF Has(d0, "cutoff_dates") THEN d0 ELSE Put(d0, "cutoff_dates", <<>>)
             d2 == IF Has(d1, "index_history") THEN d1 ELSE Put(d1, "index_history", <<>>)
             d3 == IF Has(d2, "current_cutoff_date") THEN d2
                   ELSE Put(d2, "current_cutoff_date", cutoff_date)
         IN IF Has(d3, "last_updated") THEN d3
            ELSE Put(d3, "last_updated", Get(d3, "created_date", t))

\* The videos the detail probes returned that have an upload date on or
\* after the cutoff date.
InDateRange(probed, cutoff_date) ==
    SelectSeq(probed, LAMBDA v : v.upload_date # NoDate /\ v.upload_date >= cutoff_date)

NewIndex(videos, cutoff_date, t) ==
    [created_date |-> t,
     last_updated |-> t,
     current_cutoff_date |-> cutoff_date,
     cutoff_dates |-> <<cutoff_date>>,
     total_videos |-> Len(videos),
     videos |-> DictFromList(videos),
     video_ids |-> [i \in DOMAIN videos |-> videos[i].id],
     index_history |-> <<HistoryEntry(cutoff_date, t, Len(videos), "created_new")>>]

NothingListed(cutoff_date, t) ==
    [cutoff_date |-> cutoff_date,
     created_date |-> t,
     total_videos |-> 0,
     videos |-> EmptyDict,
     video_ids |-> <<>>]

\* create_channel_index on the outcome of the two discovery steps: what it
\* returns and whether it wrote the index file.
create_channel_index(cutoff_date, discovery, t) ==
    CASE discovery.kind = "error" ->
            [returned |-> EmptyDict, saved |-> FALSE]
      [] discovery.kind = "no_videos" ->
            [returned |-> NothingListed(cutoff_date, t), saved |-> FALSE]
      [] discovery.kind = "listed" ->
            [returned |-> save_index_file(cutoff_date,
                              NewIndex(InDateRange(discovery.probed, cutoff_date),
                                       cutoff_date, t), t),
             saved |-> TRUE]

\* index_data['last_updated'] = now, as save_index_file stamps it
StampLastUpdated(index_data, t) == Put(index_data, "last_updated", t)

\* if 'last_updated' not in index_data: ...
RepairLastUpdated(index_data, t) ==
    IF Has(index_data, "last_updated") THEN index_data
    ELSE Put(index_data, "last_updated", Get(index_data, "created_date", t))

\* repair_index_file (not a dry run): the repaired record and whether any
\* repair was needed, in which case the file is rewritten.
repair_index_file(index_data, t) ==
    LET r1 == IF Has(index_data, "cutoff_dates") THEN index_data
              ELSE Put(index_data, "cutoff_dates",
                       IF Get(index_data, "cutoff_date", NoDate) # NoDate
                       THEN <<index_data["cutoff_date"]>> ELSE <<>>)
        r2 == IF Has(r1, "index_history") THEN r1
              ELSE Put(r1, "index_history",
                       <<HistoryEntry(Get(r1, "cutoff_date", UnknownDate),
                                      Get(r1, "created_date", t),
                                      Get(r1, "total_videos", 0),
                                      "repaired_legacy")>>)
        r3 == IF Has(r2, "current_cutoff_date") THEN r2
              ELSE Put(r2, "current_cutoff_date",
                       IF Get(r2, "cutoff_date", NoDate) # NoDate THEN r2["cutoff_date"]
                       ELSE IF Get(r2, "cutoff_dates", <<>>) # <<>>
                            THEN CHOOSE m \in Range(r2["cutoff_dates"]) :
                                     \A x \in Range(r2["cutoff_dates"]) : x <= m
                            ELSE UnknownDate)
        r4 == RepairLastUpdated(r3, t)
        r5 == IF Get(r4, "video_ids", <<>>) # <<>> THEN r4
              ELSE Put(r4, "video_ids", KeysList(Get(r4, "videos", EmptyDict)))
        actual_count == Cardinality(DOMAIN Get(r5, "videos", EmptyDict))
        r6 == IF Get(r5, "total_videos", 0) = actual_count THEN r5
              ELSE Put(r5, "total_videos", actual_count)
    IN [repaired |-> r6,
        repairs_needed |->
            \/ ~Has(index_data, "cutoff_dates")
            \/ ~Has(index_data, "index_history")
            \/ ~Has(index_data, "current_cutoff_date")
            \/ ~Has(index_data, "last_updated")
            \/ Get(index_data, "video_ids", <<>>) = <<>>
            \/ Get(index_data, "total_videos", 0) # actual_count]

----------------------------------------------------------------------------
(* mergeMultipleSources: merge_channel_indexes.py *)

MergeSourceVideo(all_videos, video_id, video_data) ==
    IF video_id \notin DOMAIN all_videos
    THEN Put(all_videos, video_id, video_data)
    ELSE IF SerializedLen(video_data) > SerializedLen(all_videos[video_id])
         THEN Put(all_videos, video_id, video_data)
         ELSE all_videos

\* for video_id, video_data in videos.items(): ...
RECURSIVE MergeSourceVideos(_, _, _)
MergeSourceVideos(all_videos, videos, ids) ==
    IF ids = <<>> THEN all_videos
    ELSE MergeSourceVideos(MergeSourceVideo(all_videos, Head(ids), videos[Head(ids)]),
                           videos, Tail(ids))

RECURSIVE MergeAllSources(_, _)
MergeAllSources(all_videos, indexes) ==
    IF indexes = <<>> THEN all_videos
    ELSE LET videos == Get(Head(indexes), "videos", EmptyDict)
         IN MergeAllSources(MergeSourceVideos(all_videos, videos, KeysList(videos)),
                            Tail(indexes))

\* `indexes` are the source files that parsed, in file-name order. The
\* channel name and URL taken from the most recently created source are the
\* same in every source of one channel and are left out.
merge_channel_indexes(indexes, t) ==
    LET all_videos == MergeAllSources(EmptyDict, indexes)
        all_cutoff_dates == {Get(indexes[i], "cutoff_date", NoDate) : i \in DOMAIN indexes}
                                \ {NoDate}
    IN IF indexes = <<>> THEN EmptyDict
       ELSE [created_date |-> t,
             last_updated |-> t,
             index_history |->
                 [i \in DOMAIN indexes |->
                     HistoryEntry(Get(indexes[i], "cutoff_date", NoDate),
                                  Get(indexes[i], "created_date", NoDate),
                                  Get(indexes[i], "total_videos", 0),
                                  "none")],
             videos |-> all_videos,
             video_ids |-> KeysList(all_videos),
             cutoff_dates |-> Sorted(SetToList(all_cutoff_dates)),
             total_videos |-> Cardinality(DOMAIN all_videos)]

\* A date-specific index file (.channel_index_<date>.json) as the earlier
\* releases wrote it: the shape create_channel_index still returns when the
\* channel lists nothing.
LegacyIndex(videos, cutoff_date, t) ==
    [cutoff_date |-> cutoff_date,
     created_date |-> t,
     total_videos |-> Len(videos),
     videos |-> DictFromList(videos),
     video_ids |-> [i \in DOMAIN videos |-> videos[i].id]]

----------------------------------------------------------------------------
(* ControlStore: create_download_control_v2.py, and its readers in         *)
(* podcast_harvester.py.  A relative path is <<subfolder, kind>>.          *)

PathExists(d, path) == d[path[1]][path[2]]

EmptyControl == [downloaded_videos |-> EmptyDict, statistics |-> [total_videos |-> 0]]

\* what reading whatever the file last held would return
LoadLastData(file) == file.data

\* load_control_file: the default record when the file is absent or unparsable
load_control_file(file) == IF file.state = "ok" THEN file.data ELSE EmptyControl

\* load_existing_control_file: None (the empty dict here) unless the file parses
load_existing_control_file(file) == IF file.state = "ok" THEN file.data ELSE EmptyDict

\* files.get('audio') or files.get('video'); NoPath when neither is recorded
NoPath == <<>>

MainFile(video_info) ==
    LET files == Get(video_info, "files", EmptyDict)
    IN IF Has(files, "audio") THEN files["audio"]
       ELSE IF Has(files, "video") THEN files["video"]
       ELSE NoPath

get_existing_video_ids(control_data, d, redownload_deleted) ==
    LET downloaded_videos == Get(control_data, "downloaded_videos", EmptyDict)
    IN {video_id \in DOMAIN downloaded_videos :
          LET main_file == MainFile(downloaded_videos[video_id])
          IN /\ main_file # NoPath
             /\ PathExists(d, main_file) \/ ~redownload_deleted}

OnDisk(control_data, d) ==
    LET downloaded_videos == Get(control_data, "downloaded_videos", EmptyDict)
    IN {video_id \in DOMAIN downloaded_videos :
          LET main_file == MainFile(downloaded_videos[video_id])
          IN main_file # NoPath /\ PathExists(d, main_file)}

AllRecorded(control_data, d) == DOMAIN Get(control_data, "downloaded_videos", EmptyDict)

get_actually_existing_video_ids(control_data, d) == OnDisk(control_data, d)

\* find_matching_files: the roles found beside the metadata descriptor of
\* subfolder f, stored as paths relative to the channel directory (a role
\* whose file is not found is left out of the entry's files)
find_matching_files(d, f) ==
    [role \in {"info_json"} \cup {k \in {"audio", "video"} : d[f][k]} |->
        <<f, IF role = "info_json" THEN "info" ELSE role>>]

ControlEntry(d, f) == [files |-> find_matching_files(d, f), subfolder |-> f]

\* scan_channel_directory: info_files is the list of metadata descriptors in
\* the order the directory listing returns them
RECURSIVE ScanEntries(_, _)
ScanEntries(d, info_files) ==
    IF info_files = <<>> THEN EmptyDict
    ELSE LET n == Len(info_files)
             f == info_files[n]
         IN Put(ScanEntries(d, SubSeq(info_files, 1, n - 1)), d[f].info, ControlEntry(d, f))

scan_channel_directory(d, info_files) ==
    LET downloaded_videos == ScanEntries(d, info_files)
    IN [downloaded_videos |-> downloaded_videos,
        statistics |-> [total_videos |-> Len(info_files)]]

\* dict.update: every key of `current` overrides
Overlay(existing, current) ==
    [k \in DOMAIN existing \cup DOMAIN current |->
        IF k \in DOMAIN current THEN current[k] ELSE existing[k]]

OverlayKeepExisting(existing, current) ==
    [k \in DOMAIN existing \cup DOMAIN current |->
        IF k \in DOMAIN existing THEN existing[k] ELSE current[k]]

MergeDownloaded(existing, current) == Overlay(existing, current)

\* should_preserve_deleted_records, for a channel listed in the configuration
should_preserve_deleted_records(cfg) == ~cfg.redownload_deleted

\* create_control_file: the record written to .download_control.json
create_control_file(existing_control, preserve_deleted, current_control_data) ==
    IF preserve_deleted /\ existing_control # EmptyDict
    THEN LET merged_downloaded_videos ==
                 MergeDownloaded(Get(existing_control, "downloaded_videos", EmptyDict),
                                 current_control_data.downloaded_videos)
         IN [downloaded_videos |-> merged_downloaded_videos,
             statistics |-> [total_videos |-> Cardinality(DOMAIN merged_downloaded_videos)]]
    ELSE current_control_data

----------------------------------------------------------------------------
(* Reconciler: download_channel_with_index, steps 2 to 4 *)

DownloadedIds(control_data, d, redownload_deleted, skip_existing) ==
    IF ~skip_existing THEN {}
    ELSE IF redownload_deleted THEN get_actually_existing_video_ids(control_data, d)
    ELSE get_existing_video_ids(control_data, d, redownload_deleted)

IndexedMinusDownloaded(index_data, downloaded_ids) ==
    Range(Get(index_data, "video_ids", <<>>)) \ downloaded_ids

AllIndexed(index_data, downloaded_ids) == Range(Get(index_data, "video_ids", <<>>))

videos_to_download(index_data, downloaded_ids) ==
    IndexedMinusDownloaded(index_data, downloaded_ids)

\* the ids whose URL is handed to the fetch tool: those of the plan whose
\* video_info exists and has a webpage_url that is not empty
VideoUrls(index_data, to_download) ==
    LET videos == Get(index_data, "videos", EmptyDict)
    IN {video_id \in to_download \cap DOMAIN videos :
           Get(videos[video_id], "webpage_url", NoUrl) # NoUrl}

----------------------------------------------------------------------------
(* Idle values of the state *)

NoInfo == "-"

AbsentFile == [state |-> "absent", data |-> EmptyDict]

IdleRun == [pc |-> "idle"]

EmptyDisk == [f \in Folders |-> [info |-> NoInfo, audio |-> FALSE, video |-> FALSE]]

DefaultConfig == [redownload_deleted |-> FALSE, content_type |-> "audio"]

NothingMerged == [op |-> "none"]

NoLists == [a |-> <<>>, b |-> <<>>]

NoRecord == EmptyDict

NothingLoaded == [op |-> "none"]

Jobs == {"batch", "background"}

IdleJob == [pc |-> "idle", read_index |-> "nothing", read_control |-> "nothing",
            todo |-> <<>>, failed |-> FALSE]

NoJobs == [j \in Jobs |-> IdleJob]

\* the dates in the names of the date-specific index files
OldDates == 1..NumOldFiles

NoOldIndexes == [d \in OldDates |-> AbsentFile]

\* None, as call_llm_api returns it and as a file that does not exist reads
None == "<None>"

NoItem == [chunks |-> 0, chunk_files |-> {}, summaries |-> EmptyDict, final |-> None]

IdleSummarizer ==
    [pc |-> "idle", i |-> 0, chunk_summaries |-> <<>>, chunk_calls |-> <<>>,
     final_calls |-> 0, final_summary |-> None, returned |-> "nothing"]

NoCall == [content |-> None, attempts |-> 0]

NotSegmented == "<not segmented>"

NotTruncated == [prefix |-> -1, note |-> FALSE]

SegmentIdle ==
    /\ subtitles = <<>>
    /\ chunk_duration = 300
    /\ chunks = NotSegmented

TruncateIdle ==
    /\ text_length = 0
    /\ max_context = 4096
    /\ truncated_text = NotTruncated

TextIdle ==
    /\ SegmentIdle
    /\ TruncateIdle

IdleBatch == [pc |-> "idle"]

ChannelNames == {"A", "B"}

EmptyLedger == [index |-> {}, entries |-> {}, disk |-> {}]

NoLedgers == [name \in ChannelNames |-> EmptyLedger]

IdleHarvest == [pc |-> "idle", ledgers |-> NoLedgers]

RestIdle ==
    /\ TextIdle
    /\ batch = IdleBatch
    /\ harvest = IdleHarvest

SummaryIdle ==
    /\ item = NoItem
    /\ summarizer = IdleSummarizer
    /\ llm_call = [responses |-> <<>>, result |-> NoCall]

OthersIdle ==
    /\ jobs = NoJobs
    /\ old_indexes = NoOldIndexes
    /\ SummaryIdle
    /\ RestIdle

PureIdle ==
    /\ lists = NoLists
    /\ merged = NothingMerged
    /\ legacy = NoRecord
    /\ migrated = NothingLoaded

HarvestIdle ==
    /\ index_file = AbsentFile
    /\ run = IdleRun
    /\ disk = EmptyDisk
    /\ control_file = AbsentFile
    /\ config = DefaultConfig
    /\ now = 0

harvestVars == <<index_file, run, disk, control_file, config, now>>

----------------------------------------------------------------------------
(* A harvest run: download_channel_with_index.  StartRun is step 1 up to   *)
(* and including the discovery call; UpdateIndex is the merge or the       *)
(* cutoff-date tracking that follows discovery for a new cutoff date;      *)
(* PlanAndFetch is steps 2 to 5.                                           *)

OkFile(data) == [state |-> "ok", data |-> data]

Planning(cutoff_date, skip_existing, index_data) ==
    [pc |-> "plan", cutoff_date |-> cutoff_date, skip_existing |-> skip_existing,
     index_data |-> index_data]

Updating(cutoff_date, skip_existing, index_data, new_index) ==
    [pc |-> "update", cutoff_date |-> cutoff_date, skip_existing |-> skip_existing,
     index_data |-> index_data, new_index |-> new_index]

\* `flags` are the command lines the run may be started with
\* (--force-reindex, --no-skip).  The clock ticks when a timestamp is written
\* to the index file.
StartRun(cutoffs, discoveries, flags) ==
    /\ run.pc = "idle"
    /\ now < MaxClock
    /\ \E cutoff_date \in cutoffs, flag \in flags, discovery \in discoveries :
          LET t == now + 1
              loaded == IF flag.force_reindex THEN EmptyDict
                        ELSE load_index_file(index_file, cutoff_date, t)
              created == create_channel_index(cutoff_date, discovery, t)
          IN IF loaded = EmptyDict
             THEN /\ index_file' = IF created.saved THEN OkFile(created.returned)
                                   ELSE index_file
                  /\ now' = IF created.saved THEN t ELSE now
                  /\ run' = IF created.returned = EmptyDict
                               \/ Get(created.returned, "videos", EmptyDict) = EmptyDict
                            THEN IdleRun
                            ELSE Planning(cutoff_date, flag.skip_existing, created.returned)
             ELSE IF \/ cutoff_date \notin Range(Get(loaded, "cutoff_dates", <<>>))
                     \/ loaded["current_cutoff_date"] # cutoff_date
             THEN /\ index_file' = IF created.saved THEN OkFile(created.returned)
                                   ELSE index_file
                  /\ now' = IF created.saved THEN t ELSE now
                  /\ run' = Updating(cutoff_date, flag.skip_existing, loaded,
                                     created.returned)
             ELSE /\ index_file' = index_file
                  /\ now' = now
                  /\ run' = Planning(cutoff_date, flag.skip_existing, loaded)
    /\ UNCHANGED <<disk, control_file, config, pureVars, otherVars>>

\* list(new_index['videos'].values())
ValuesList(videos) == [i \in 1..Cardinality(DOMAIN videos) |-> videos[KeysList(videos)[i]]]

UpdateIndex ==
    /\ run.pc = "update"
    /\ now' = now + 1
    /\ LET new_videos == Get(run.new_index, "videos", EmptyDict)
           tracked == Put(Put(Put(run.index_data, "cutoff_dates",
                                  AppendSorted(Get(run.index_data, "cutoff_dates", <<>>),
                                               run.cutoff_date)),
                              "index_history", Get(run.index_data, "index_history", <<>>)),
                          "current_cutoff_date", run.cutoff_date)
           index_data ==
               IF new_videos # EmptyDict
               THEN save_index_file(run.cutoff_date,
                        update_unified_index(run.index_data, ValuesList(new_videos),
                                             run.cutoff_date, now'),
                        now')
               ELSE save_index_file(run.cutoff_date, Put(tracked, "last_updated", now'), now')
       IN /\ index_file' = OkFile(index_data)
          /\ run' = Planning(run.cutoff_date, run.skip_existing, index_data)
    /\ UNCHANGED <<disk, control_file, config, pureVars, otherVars>>

\* The fetch tool materializes any part of what it is handed: item x goes to
\* its own subfolder g[x], named after its upload date and title.
Materialize(d, fetched, g) ==
    [f \in Folders |->
        IF \E x \in fetched : g[x] = f
        THEN LET x == CHOOSE y \in fetched : g[y] = f
             IN [info |-> x,
                 audio |-> d[f].audio \/ config.content_type = "audio",
                 video |-> d[f].video \/ config.content_type = "video"]
        ELSE d[f]]

PlanAndFetch(can_fetch) ==
    /\ run.pc = "plan"
    /\ LET downloaded_ids == DownloadedIds(load_control_file(control_file), disk,
                                           config.redownload_deleted, run.skip_existing)
           to_download == videos_to_download(run.index_data, downloaded_ids)
           video_urls == VideoUrls(run.index_data, to_download)
       IN \E fetched \in (IF can_fetch THEN SUBSET video_urls ELSE {{}}) :
             \E g \in [fetched -> Folders] :
                /\ \A x, y \in fetched : g[x] = g[y] => x = y
                /\ \A x \in fetched : disk[g[x]].info \in {NoInfo, x}
                /\ disk' = Materialize(disk, fetched, g)
    /\ run' = IdleRun
    /\ UNCHANGED <<index_file, control_file, config, now, pureVars, otherVars>>

----------------------------------------------------------------------------
(* The control refresh (create_control_file) and the content server's      *)
(* deletions, which run beside the harvester                               *)

FolderExists(f) == disk[f].info # NoInfo \/ disk[f].audio \/ disk[f].video

InfoFiles == {f \in Folders : disk[f].info # NoInfo}

Orderings(S) == {s \in [1..Cardinality(S) -> S] : \A i, j \in DOMAIN s : s[i] = s[j] => i = j}

Refresh ==
    /\ \E info_files \in Orderings(InfoFiles) :
          control_file' = OkFile(create_control_file(
                                    load_existing_control_file(control_file),
                                    should_preserve_deleted_records(config),
                                    scan_channel_directory(disk, info_files)))
    /\ UNCHANGED <<index_file, run, disk, config, now, pureVars, otherVars>>

\* ContentHandler.handle_delete_media: the media files of one subfolder
DeleteMedia ==
    /\ \E f \in Folders :
          /\ FolderExists(f)
          /\ disk' = [disk EXCEPT ![f].audio = FALSE, ![f].video = FALSE]
    /\ UNCHANGED <<index_file, run, control_file, config, now, pureVars, otherVars>>

\* ContentHandler.handle_delete_folder: the whole subfolder
DeleteFolder ==
    /\ \E f \in Folders :
          /\ FolderExists(f)
          /\ disk' = [disk EXCEPT ![f] = [info |-> NoInfo, audio |-> FALSE, video |-> FALSE]]
    /\ UNCHANGED <<index_file, run, control_file, config, now, pureVars, otherVars>>

----------------------------------------------------------------------------
(* The ledger specification: one channel, harvest runs for one cutoff date *)
(* with the control refresh and the server's deletions in between          *)

PlainVideoSet == {Video(i, "a", 1) : i \in Ids}

PlainDiscoveries ==
    {[kind |-> "error"], [kind |-> "no_videos"]}
        \cup {[kind |-> "listed", probed |-> SetToList(S)] : S \in SUBSET PlainVideoSet}

Init ==
    /\ index_file = AbsentFile
    /\ run = IdleRun
    /\ disk = EmptyDisk
    /\ control_file = AbsentFile
    /\ config \in [redownload_deleted : BOOLEAN, content_type : {"audio", "video"}]
    /\ now = 0
    /\ PureIdle
    /\ OthersIdle

CachedFlags == [force_reindex : {FALSE}, skip_existing : BOOLEAN]

Next ==
    \/ StartRun({1}, PlainDiscoveries, CachedFlags)
    \/ PlanAndFetch(TRUE)
    \/ Refresh
    \/ DeleteMedia
    \/ DeleteFolder

Spec == Init /\ [][Next]_vars

Control == load_control_file(control_file)

Entries == Get(Control, "downloaded_videos", EmptyDict)

RecordsMedia(x) == x \in DOMAIN Entries /\ MainFile(Entries[x]) # NoPath

MediaMissing(x) == RecordsMedia(x) /\ ~PathExists(disk, MainFile(Entries[x]))

\* planFetch as step 2 and 3 compute it in the current state
PlanFor(index_data, skip_existing) ==
    videos_to_download(index_data,
        DownloadedIds(Control, disk, config.redownload_deleted, skip_existing))

IndexedIds(index_data) == Range(Get(index_data, "video_ids", <<>>))

\* an index that lists every id: what its plan leaves out, every plan leaves out
EveryIdIndex == [video_ids |-> SetToList(Ids)]

\* C1: with redownload_deleted false, an item the ledger records with a
\* primary media file is, after any later step (the deletion of its media,
\* with or without its descriptor, and a control refresh among them), still
\* listed in the ledger's entries and left out of the fetch plan.
C1_DeletedStaysExcluded ==
    [][~config.redownload_deleted =>
          \A x \in Ids :
             RecordsMedia(x) =>
                 /\ x \in DOMAIN Entries'
                 /\ x \notin PlanFor(EveryIdIndex, TRUE)']_vars

\* C2: with redownload_deleted false, no id that is a key of the ledger's
\* entries is in the fetch plan, whichever file roles its entry records.
C2_RecordedIsKnown ==
    (run.pc = "plan" /\ run.skip_existing /\ ~config.redownload_deleted) =>
        \A x \in DOMAIN Entries : x \notin PlanFor(run.index_data, TRUE)

\* C3: with redownload_deleted true, an item the ledger records whose
\* primary media file is not on disk is not among the items present on disk,
\* and the fetch plan includes it whenever the index lists it.
C3_DeletedIsRefetched ==
    config.redownload_deleted =>
        \A x \in Ids :
           MediaMissing(x) =>
               /\ x \notin get_actually_existing_video_ids(Control, disk)
               /\ (run.pc = "plan" /\ x \in IndexedIds(run.index_data))
                      => x \in PlanFor(run.index_data, run.skip_existing)

C3_Witness ==
    /\ config.redownload_deleted
    /\ run.pc = "plan"
    /\ run.skip_existing
    /\ MediaMissing("X")
    /\ "X" \in PlanFor(run.index_data, run.skip_existing)
    /\ "Y" \in get_actually_existing_video_ids(Control, disk)
    /\ "Y" \notin PlanFor(run.index_data, run.skip_existing)

\* C4: with skipping enabled the fetch plan is a subset of the index's ids,
\* and with redownload_deleted false it holds no id that the ledger records
\* with a primary media file present on disk.
C4_PlanSetAlgebra ==
    (run.pc = "plan" /\ run.skip_existing) =>
        /\ PlanFor(run.index_data, TRUE) \subseteq IndexedIds(run.index_data)
        /\ ~config.redownload_deleted =>
              PlanFor(run.index_data, TRUE) \cap OnDisk(Control, disk) = {}

C4_Witness ==
    /\ run.pc = "plan"
    /\ run.skip_existing
    /\ ~config.redownload_deleted
    /\ IndexedIds(run.index_data) = {"X", "Y"}
    /\ OnDisk(Control, disk) = {"X"}
    /\ PlanFor(run.index_data, TRUE) = {"Y"}

\* C5: a control refresh with preserve_deleted true and a previous ledger
\* writes the previous entries overlaid by the rescanned ones (key set the
\* union, the rescanned entry on collision); with preserve_deleted false it
\* writes exactly the rescanned entries.
C5_ReconcileWithPrevious ==
    [][control_file' # control_file =>
          \E info_files \in Orderings(InfoFiles) :
             LET rescanned == scan_channel_directory(disk, info_files).downloaded_videos
                 previous == Entries
                 written == control_file'.data.downloaded_videos
             IN IF should_preserve_deleted_records(config) /\ control_file.state = "ok"
                THEN /\ DOMAIN written = DOMAIN previous \cup DOMAIN rescanned
                     /\ \A x \in DOMAIN written :
                           written[x] = IF x \in DOMAIN rescanned THEN rescanned[x]
                                        ELSE previous[x]
                ELSE written = rescanned]_vars

\* X's entry is kept though its subfolder now holds Y, which the same
\* refresh recorded
C5_Witness ==
    /\ ~config.redownload_deleted
    /\ DOMAIN Entries = {"X", "Y"}
    /\ Entries["X"].subfolder = 1
    /\ Entries["Y"].subfolder = 1
    /\ disk[1].info = "Y"
    /\ \A f \in Folders : disk[f].info # "X"

\* C6: after any control refresh the written ledger's total_videos equals
\* the number of keys of its entries.
C6_TotalIsEntryCount ==
    control_file.state = "ok" =>
        control_file.data.statistics.total_videos
            = Cardinality(DOMAIN control_file.data.downloaded_videos)

----------------------------------------------------------------------------
(* The index specification: one channel, harvest runs for any cutoff date, *)
(* cached or with --force-reindex, over discovery results that may list an *)
(* id more than once; the fetch tool fails.  repair_unified_indexes.py runs *)
(* in between.                                                             *)

IndexVideoSet ==
    {Video(i, t, d) : i \in Ids, t \in {"a", "ab"}, d \in Dates}
        \cup {Video(i, "a", NoDate) : i \in Ids}

AnyDiscoveries ==
    {[kind |-> "error"], [kind |-> "no_videos"]}
        \cup {[kind |-> "listed", probed |-> p] : p \in SeqsUpTo(IndexVideoSet, MaxList)}

\* cached or --force-reindex; nothing is fetched, so --no-skip changes nothing
IndexFlags == [force_reindex : BOOLEAN, skip_existing : {TRUE}]

CorruptFile == [state |-> "corrupt", data |-> EmptyDict]

RepairTool ==
    /\ index_file.state = "ok"
    /\ LET r == repair_index_file(index_file.data, now)
       IN index_file' = IF r.repairs_needed THEN OkFile(r.repaired) ELSE index_file
    /\ UNCHANGED <<run, disk, control_file, config, now, pureVars, otherVars>>

IndexInit ==
    /\ index_file \in {AbsentFile, CorruptFile}
    /\ run = IdleRun
    /\ disk = EmptyDisk
    /\ control_file = AbsentFile
    /\ config = DefaultConfig
    /\ now = 0
    /\ PureIdle
    /\ OthersIdle

IndexNext ==
    \/ StartRun(Dates, AnyDiscoveries, IndexFlags)
    \/ UpdateIndex
    \/ PlanAndFetch(FALSE)
    \/ RepairTool

SpecIndex == IndexInit /\ [][IndexNext]_vars

SavedIds ==
    IF index_file.state = "ok" THEN DOMAIN Get(index_file.data, "videos", EmptyDict) ELSE {}

\* C7: an item id that is in the channel's saved index is still in the
\* saved index after every later step of every discovery run.
C7_IndexNeverDestroyed == [][SavedIds \subseteq SavedIds']_vars

\* the step merges a discovery result into the index the run loaded
MergeStep ==
    /\ run.pc = "update"
    /\ run'.pc = "plan"
    /\ Get(run.new_index, "videos", EmptyDict) # EmptyDict

\* C31: a merge of a discovery result into an index for a cutoff date appends
\* exactly one record to the history and leaves the earlier records as they
\* were and in order, adds the cutoff date to cutoff_dates exactly when it
\* was not there, and sets current_cutoff_date to the cutoff date.
C31_MergeBookkeeping ==
    [][MergeStep =>
          LET existing == run.index_data
              merged_index == index_file'.data
              history == Get(existing, "index_history", <<>>)
              seen == Get(existing, "cutoff_dates", <<>>)
          IN /\ Len(merged_index["index_history"]) = Len(history) + 1
             /\ SubSeq(merged_index["index_history"], 1, Len(history)) = history
             /\ merged_index["index_history"][Len(history) + 1].cutoff_date = run.cutoff_date
             /\ Range(merged_index["cutoff_dates"]) = Range(seen) \cup {run.cutoff_date}
             /\ Len(merged_index["cutoff_dates"])
                    = Len(seen) + (IF run.cutoff_date \in Range(seen) THEN 0 ELSE 1)
             /\ merged_index["current_cutoff_date"] = run.cutoff_date]_vars

\* a run has merged a discovery result for the cutoff date the index was
\* created for, after a run for the other cutoff date
C31_Witness ==
    /\ run.pc = "plan"
    /\ index_file.state = "ok"
    /\ index_file.data = run.index_data
    /\ Len(Get(run.index_data, "index_history", <<>>)) = 2
    /\ run.index_data["index_history"][1].source_file = "created_new"
    /\ run.index_data["index_history"][1].cutoff_date = run.cutoff_date
    /\ run.index_data["index_history"][2].source_file = "updated_existing"
    /\ run.index_data["index_history"][2].cutoff_date = run.cutoff_date
    /\ Len(run.index_data["cutoff_dates"]) = 2
    /\ run.index_data["current_cutoff_date"] = run.cutoff_date

\* the step follows a discovery call that failed: create_channel_index
\* returned {} for the new cutoff date of an index the run had loaded
FailedDiscoveryStep ==
    /\ run.pc = "update"
    /\ run'.pc = "plan"
    /\ run.new_index = EmptyDict

\* C32: a cutoff date enters the saved index's cutoff_dates and
\* current_cutoff_date only after discovery for it succeeded: a run whose
\* discovery call for a new cutoff date failed saves the cutoff_dates and the
\* current_cutoff_date it loaded, so that the next run for that cutoff date
\* performs discovery again.
C32_CutoffRecordedAfterDiscovery ==
    [][FailedDiscoveryStep =>
          /\ index_file'.state = "ok"
          /\ Get(index_file'.data, "cutoff_dates", <<>>)
                 = Get(run.index_data, "cutoff_dates", <<>>)
          /\ index_file'.data["current_cutoff_date"]
                 = run.index_data["current_cutoff_date"]]_vars

StrictlySorted(s) == \A i, j \in DOMAIN s : i < j => s[i] < s[j]

IndexInvariant(d) ==
    LET videos == Get(d, "videos", EmptyDict)
        video_ids == Get(d, "video_ids", <<>>)
    IN /\ Has(d, "videos") /\ Has(d, "video_ids") /\ Has(d, "total_videos")
       /\ Has(d, "cutoff_dates")
       /\ Range(video_ids) = DOMAIN videos
       /\ Len(video_ids) = Cardinality(DOMAIN videos)
       /\ d["total_videos"] = Cardinality(DOMAIN videos)
       /\ StrictlySorted(d["cutoff_dates"])

\* C9: every index that create, merge, repair or save wrote to the index
\* file, and every index a run holds when it plans, has video_ids listing
\* exactly the keys of videos, total_videos equal to the number of videos,
\* and cutoff_dates sorted without duplicates.
C9_IndexInvariant ==
    /\ index_file.state = "ok" => IndexInvariant(index_file.data)
    /\ run.pc = "plan" => IndexInvariant(run.index_data)

----------------------------------------------------------------------------
(* Loading and repairing an index record of an earlier release             *)

LegacyRecords ==
    {[cutoff_date |-> d, videos |-> DictFromList(l)] :
        d \in Dates, l \in SeqsUpTo(IndexVideoSet, MaxList)}

LoadInit ==
    /\ HarvestIdle
    /\ lists = NoLists
    /\ merged = NothingMerged
    /\ legacy \in LegacyRecords
    /\ migrated = NothingLoaded
    /\ OthersIdle

\* load_index_file at the start of a harvest run for cutoff_date
LoadLegacy ==
    /\ migrated.op = "none"
    /\ \E cutoff_date \in Dates :
          migrated' = [op |-> "load", cutoff_date |-> cutoff_date,
                     record |-> load_index_file(OkFile(legacy), cutoff_date, now + 1)]
    /\ UNCHANGED <<lists, merged, legacy, harvestVars, otherVars>>

\* repair_unified_indexes.py on the record's file
RepairLegacy ==
    /\ migrated.op = "none"
    /\ migrated' = [op |-> "repair", record |-> repair_index_file(legacy, now + 1).repaired]
    /\ UNCHANGED <<lists, merged, legacy, harvestVars, otherVars>>

LoadNext == LoadLegacy \/ RepairLegacy

SpecLoad == LoadInit /\ [][LoadNext]_vars

\* C10: loading a record that holds only a singular cutoff_date d and videos
\* yields cutoff_dates = [d], current_cutoff_date = d and a history of
\* exactly one entry, whichever cutoff date the run was started with.
C10_LegacyMigration ==
    migrated.op # "none" =>
        /\ migrated.record["cutoff_dates"] = <<legacy["cutoff_date"]>>
        /\ migrated.record["current_cutoff_date"] = legacy["cutoff_date"]
        /\ Len(migrated.record["index_history"]) = 1

----------------------------------------------------------------------------
(* repair_unified_indexes.py run twice on one index file                    *)

WithField(records, key, values) ==
    records \cup {Put(r, key, v) : r \in records, v \in values}

\* index files with any subset of the fields the repair looks at
IndexRecords ==
    LET s1 == WithField({EmptyDict}, "videos",
                        {DictFromList(l) : l \in SeqsUpTo(PlainVideoSet, MaxList)})
        s2 == WithField(s1, "video_ids", SeqsUpTo(Ids, MaxList))
        s3 == WithField(s2, "total_videos", 0..MaxList)
        s4 == WithField(s3, "cutoff_date", Dates \cup {NoDate})
        s5 == WithField(s4, "cutoff_dates", {<<>>} \cup {<<d>> : d \in Dates})
        s6 == WithField(s5, "current_cutoff_date", {1})
        s7 == WithField(s6, "index_history", {<<>>})
        s8 == WithField(s7, "created_date", {0})
    IN WithField(s8, "last_updated", {0})

RepairInit ==
    /\ HarvestIdle
    /\ lists = NoLists
    /\ merged = NothingMerged
    /\ legacy \in IndexRecords
    /\ migrated = NothingLoaded
    /\ OthersIdle

\* the first run of the tool on the file
RepairOnce ==
    /\ migrated.op = "none"
    /\ migrated' = [op |-> "repair", record |-> repair_index_file(legacy, now + 1).repaired]
    /\ UNCHANGED <<lists, merged, legacy, harvestVars, otherVars>>

\* a later run of the tool on the file the first run left
RepairTwice ==
    /\ migrated.op = "repair"
    /\ migrated' = [op |-> "repair_twice", once |-> migrated.record,
                    record |-> repair_index_file(migrated.record, now + 2).repaired]
    /\ UNCHANGED <<lists, merged, legacy, harvestVars, otherVars>>

RepairNext == RepairOnce \/ RepairTwice

SpecRepair == RepairInit /\ [][RepairNext]_vars

HasRequiredFields(d) ==
    /\ Has(d, "index_history")
    /\ Has(d, "current_cutoff_date")
    /\ Has(d, "last_updated")

\* C11: repairing a repaired record gives the same record again, and
\* repairing a record that has all required fields and satisfies the index
\* invariant leaves it unchanged.
C11_RepairIdempotent ==
    /\ migrated.op = "repair_twice" => migrated.record = migrated.once
    /\ (migrated.op = "repair" /\ HasRequiredFields(legacy) /\ IndexInvariant(legacy))
          => migrated.record = legacy

\* a record with a video and without last_updated and created_date was
\* changed by the first repair and then repaired again
C11_Witness ==
    /\ migrated.op = "repair_twice"
    /\ ~Has(legacy, "last_updated") /\ ~Has(legacy, "created_date")
    /\ Get(legacy, "videos", EmptyDict) # EmptyDict
    /\ migrated.once # legacy

----------------------------------------------------------------------------
(* Two harvester processes on one channel directory: the batch run and the *)
(* run the content server starts in a background thread.  Each save is     *)
(* open(path, 'w'), which truncates the file, then json.dump and the close *)
(* that complete it.  A process can be interrupted between any two steps.  *)

\* the index documents step 1 of download_channel_with_index saves, in order
IndexSaves(loaded, created, cutoff_date, t) ==
    LET first == IF created.saved THEN <<created.returned>> ELSE <<>>
        new_videos == Get(created.returned, "videos", EmptyDict)
        tracked == Put(Put(Put(loaded, "cutoff_dates",
                               AppendSorted(Get(loaded, "cutoff_dates", <<>>), cutoff_date)),
                           "index_history", Get(loaded, "index_history", <<>>)),
                       "current_cutoff_date", cutoff_date)
        second == IF new_videos # EmptyDict
                  THEN save_index_file(cutoff_date,
                           update_unified_index(loaded, ValuesList(new_videos),
                                                cutoff_date, t), t)
                  ELSE save_index_file(cutoff_date, Put(tracked, "last_updated", t), t)
    IN IF loaded = EmptyDict THEN first
       ELSE IF \/ cutoff_date \notin Range(Get(loaded, "cutoff_dates", <<>>))
               \/ loaded["current_cutoff_date"] # cutoff_date
            THEN Append(first, second)
            ELSE <<>>

\* load_index_file, then discovery
JobLoad(j) ==
    /\ jobs[j].pc = "idle"
    /\ now' = now + 1
    /\ \E cutoff_date \in Dates, discovery \in PlainDiscoveries :
          LET loaded == load_index_file(index_file, cutoff_date, now')
              created == create_channel_index(cutoff_date, discovery, now')
          IN jobs' = [jobs EXCEPT ![j] =
                         [pc |-> "index", read_index |-> index_file.state,
                          read_control |-> "nothing",
                          todo |-> IndexSaves(loaded, created, cutoff_date, now'),
                          failed |-> loaded = EmptyDict /\ created.returned = EmptyDict]]
    /\ UNCHANGED <<index_file, control_file, run, disk, config, pureVars, old_indexes, summaryVars, restVars>>

\* with open(index_file, 'w', encoding='utf-8') as f:
JobOpenIndex(j) ==
    /\ jobs[j].pc = "index"
    /\ jobs[j].todo # <<>>
    /\ index_file' = CorruptFile
    /\ jobs' = [jobs EXCEPT ![j].pc = "index_open"]
    /\ UNCHANGED <<control_file, now, run, disk, config, pureVars, old_indexes, summaryVars, restVars>>

\* json.dump(index_data, f, ...) and the end of the with block
JobCloseIndex(j) ==
    /\ jobs[j].pc = "index_open"
    /\ index_file' = OkFile(Head(jobs[j].todo))
    /\ jobs' = [jobs EXCEPT ![j].pc = "index", ![j].todo = Tail(@)]
    /\ UNCHANGED <<control_file, now, run, disk, config, pureVars, old_indexes, summaryVars, restVars>>

\* main exits before the control refresh when the channel failed
JobExit(j) ==
    /\ jobs[j].pc = "index"
    /\ jobs[j].todo = <<>>
    /\ jobs[j].failed
    /\ jobs' = [jobs EXCEPT ![j].pc = "done"]
    /\ UNCHANGED <<index_file, control_file, now, run, disk, config, pureVars, old_indexes, summaryVars, restVars>>

\* create_control_file up to with open(control_file, 'w', ...) as f:
JobOpenControl(j) ==
    /\ jobs[j].pc = "index"
    /\ jobs[j].todo = <<>>
    /\ ~jobs[j].failed
    /\ control_file' = CorruptFile
    /\ jobs' = [jobs EXCEPT
                  ![j].pc = "control_open",
                  ![j].read_control = control_file.state,
                  ![j].todo = <<create_control_file(
                                    load_existing_control_file(control_file),
                                    should_preserve_deleted_records(config),
                                    scan_channel_directory(disk, <<>>))>>]
    /\ UNCHANGED <<index_file, now, run, disk, config, pureVars, old_indexes, summaryVars, restVars>>

\* json.dump(control_data, f, ...) and the end of the with block
JobCloseControl(j) ==
    /\ jobs[j].pc = "control_open"
    /\ control_file' = OkFile(Head(jobs[j].todo))
    /\ jobs' = [jobs EXCEPT ![j].pc = "done", ![j].todo = <<>>]
    /\ UNCHANGED <<index_file, now, run, disk, config, pureVars, old_indexes, summaryVars, restVars>>

\* the process is killed
Interrupt(j) ==
    /\ jobs[j].pc \in {"index", "index_open", "control_open"}
    /\ jobs' = [jobs EXCEPT ![j].pc = "killed"]
    /\ UNCHANGED <<index_file, control_file, now, run, disk, config, pureVars, old_indexes, summaryVars, restVars>>

SaveInit ==
    /\ HarvestIdle
    /\ PureIdle
    /\ OthersIdle

SaveNext ==
    \E j \in Jobs :
       \/ JobLoad(j)
       \/ JobOpenIndex(j)
       \/ JobCloseIndex(j)
       \/ JobExit(j)
       \/ JobOpenControl(j)
       \/ JobCloseControl(j)
       \/ Interrupt(j)

SpecSave == SaveInit /\ [][SaveNext]_vars

NoSaveInProgress == \A j \in Jobs : jobs[j].pc \notin {"index_open", "control_open"}

\* C12: whenever no process is in the middle of a save, interrupted ones
\* included, the index file and the control file each hold a complete
\* document (or were never written): never an empty or partial one.
C12_SavesAreAtomic ==
    NoSaveInProgress => index_file.state # "corrupt" /\ control_file.state # "corrupt"

\* C13: with two runs on one channel directory, every read of the index
\* file or of the control file by either run finds a complete document (or
\* no file), in every interleaving.
C13_ReadsAreComplete ==
    \A j \in Jobs : jobs[j].read_index # "corrupt" /\ jobs[j].read_control # "corrupt"

----------------------------------------------------------------------------
(* The migration tool, merge_channel_indexes.py (not a dry run), on one     *)
(* channel directory holding date-specific index files                      *)

\* load_index_file of merge_channel_indexes.py: {} when the file does not parse
load_source_file(file) == IF file.state = "ok" THEN file.data ELSE EmptyDict

\* a loader that gives up on the first source that does not parse
LoadAllOrNothing(files) ==
    IF \E i \in DOMAIN files : files[i].state # "ok" THEN <<>>
    ELSE [i \in DOMAIN files |-> files[i].data]

\* the loop of merge_channel_indexes that keeps the sources that loaded
LoadSources(files) ==
    SelectSeq([i \in DOMAIN files |-> load_source_file(files[i])],
              LAMBDA index_data : index_data # EmptyDict)

\* sorted(channel_dir.glob('.channel_index_*.json')), as the dates in the names
IndexFiles(old) ==
    SelectSeq([d \in 1..NumOldFiles |-> d], LAMBDA d : old[d].state # "absent")

FileName(d) == ".channel_index_" \o ToString(d) \o ".json"

\* save_unified_index: history entry i is labelled with the name of file i
save_unified_index(unified_index, original_files) ==
    [unified_index EXCEPT !["index_history"] =
        [i \in DOMAIN @ |->
            IF i <= Len(original_files)
            THEN [@[i] EXCEPT !.source_file = FileName(original_files[i])]
            ELSE @[i]]]

Migrated(op) == [op |-> op, sources |-> old_indexes]

\* main: a unified index exists, the date-specific files are removed
MigrateCleanup ==
    /\ IndexFiles(old_indexes) # <<>>
    /\ index_file.state # "absent"
    /\ old_indexes' = NoOldIndexes
    /\ merged' = Migrated("cleanup")
    /\ UNCHANGED <<index_file, now, run, disk, control_file, config, lists, legacy,
                   migrated, jobs, summaryVars, restVars>>

\* main: the single date-specific file is renamed to .channel_index.json
MigrateRename ==
    /\ Len(IndexFiles(old_indexes)) = 1
    /\ index_file.state = "absent"
    /\ index_file' = old_indexes[IndexFiles(old_indexes)[1]]
    /\ old_indexes' = NoOldIndexes
    /\ merged' = Migrated("rename")
    /\ UNCHANGED <<now, run, disk, control_file, config, lists, legacy, migrated, jobs, summaryVars, restVars>>

\* main: several date-specific files are merged, saved and removed
MigrateMerge ==
    /\ Len(IndexFiles(old_indexes)) > 1
    /\ index_file.state = "absent"
    /\ LET index_files == IndexFiles(old_indexes)
           unified_index ==
               merge_channel_indexes(
                   LoadSources([i \in DOMAIN index_files |-> old_indexes[index_files[i]]]),
                   now + 1)
       IN IF unified_index # EmptyDict
          THEN /\ index_file' = OkFile(save_unified_index(unified_index, index_files))
               /\ old_indexes' = NoOldIndexes
               /\ now' = now + 1
          ELSE UNCHANGED <<index_file, old_indexes, now>>
    /\ merged' = Migrated("merge")
    /\ UNCHANGED <<run, disk, control_file, config, lists, legacy, migrated, jobs, summaryVars, restVars>>

OldVideoSet == {Video(i, t, 1) : i \in Ids, t \in {"a", "ab"}}

\* what a date-specific file can be: absent, unparsable, or an index of
\* videos with distinct ids
OldShapes ==
    {[state |-> st, videos |-> {}] : st \in {"absent", "corrupt"}}
        \cup {[state |-> "ok", videos |-> S] :
                 S \in {T \in SUBSET OldVideoSet : \A v, w \in T : v.id = w.id => v = w}}

\* what an earlier release left under the name .channel_index_<d>.json
OldIndexFile(shape, d) ==
    IF shape.state = "ok" THEN OkFile(LegacyIndex(SetToList(shape.videos), d, 0))
    ELSE [state |-> shape.state, data |-> EmptyDict]

MigrateInit ==
    /\ run = IdleRun
    /\ disk = EmptyDisk
    /\ control_file = AbsentFile
    /\ config = DefaultConfig
    /\ now = 0
    /\ index_file \in {AbsentFile, OkFile(NewIndex(<<Video("X", "a", 1)>>, 1, 0))}
    /\ PureIdle
    /\ jobs = NoJobs
    /\ SummaryIdle
    /\ RestIdle
    /\ old_indexes \in {[d \in OldDates |-> OldIndexFile(shape[d], d)] :
                           shape \in [OldDates -> OldShapes]}

MigrateNext == MigrateCleanup \/ MigrateRename \/ MigrateMerge

SpecMigrate == MigrateInit /\ [][MigrateNext]_vars

\* the ids held by the date-specific files that parse
SourceIds(sources) ==
    UNION {DOMAIN Get(load_source_file(sources[d]), "videos", EmptyDict) : d \in OldDates}

\* C14: once the tool has processed the channel and removed its
\* date-specific files, every id that a parsable one of them held is in the
\* unified index, also when a unified index existed before and when there
\* was a single date-specific file.
C14_MigrationKeepsIds ==
    (merged.op \in {"cleanup", "rename", "merge"} /\ old_indexes = NoOldIndexes)
        => SourceIds(merged.sources) \subseteq SavedIds

ParsableDates(sources) == {d \in OldDates : load_source_file(sources[d]) # EmptyDict}

\* C15: when the tool merges several date-specific files, the files that do
\* not parse are skipped: the saved index holds exactly the ids of the
\* sources that parse, for each id a copy of the largest size among them,
\* and exactly their cutoff dates in order, one history entry per parsed
\* source; the merge saves nothing only when no source parses.
C15_UnparsableSkipped ==
    merged.op = "merge" =>
        LET parsed == ParsableDates(merged.sources)
        IN IF parsed = {} THEN index_file.state = "absent"
           ELSE /\ index_file.state = "ok"
                /\ DOMAIN index_file.data["videos"] = SourceIds(merged.sources)
                /\ \A id \in DOMAIN index_file.data["videos"] :
                      LET copies == {merged.sources[d].data["videos"][id] :
                                        d \in {e \in parsed :
                                                 id \in DOMAIN merged.sources[e].data["videos"]}}
                          kept == index_file.data["videos"][id]
                      IN /\ kept \in copies
                         /\ \A v \in copies : SerializedLen(kept) >= SerializedLen(v)
                /\ index_file.data["cutoff_dates"] = Sorted(SetToList(parsed))
                /\ Len(index_file.data["index_history"]) = Cardinality(parsed)

\* a merge of three files: the first does not parse, the other two hold X
\* with different sizes
C15_Witness ==
    /\ merged.op = "merge"
    /\ merged.sources[1].state = "corrupt"
    /\ \E d, e \in ParsableDates(merged.sources) :
          /\ "X" \in DOMAIN merged.sources[d].data["videos"]
          /\ "X" \in DOMAIN merged.sources[e].data["videos"]
          /\ merged.sources[d].data["videos"]["X"].title = "a"
          /\ merged.sources[e].data["videos"]["X"].title = "ab"
    /\ index_file.state = "ok"
    /\ index_file.data["videos"]["X"].title = "ab"

----------------------------------------------------------------------------
(* SummaryClient: call_llm_api of content_summarizer.py.  `responses` is    *)
(* what the service does on each attempt.                                  *)

\* what one urlopen of the request can come to
Responses ==
    {[kind |-> "completion", content |-> c] : c \in {"s", " "}}
        \cup {[kind |-> k, content |-> None] :
                 k \in {"no_choices", "status", "http_error", "url_error", "malformed"}}

\* content.strip()
Strip(content) == IF content = " " THEN "" ELSE content

\* a client that makes one attempt more than configured
AttemptOverrun(responses, attempt, max_retries) ==
    [content |-> None, attempts |-> max_retries + 1]

\* for attempt in range(max_retries): `attempt` counts from 1 here
RECURSIVE Attempt(_, _, _)
Attempt(responses, attempt, max_retries) ==
    IF attempt > max_retries THEN [content |-> None, attempts |-> max_retries]
    ELSE LET response == responses[attempt]
         IN IF response.kind = "completion"
            THEN [content |-> Strip(response.content), attempts |-> attempt]
            ELSE IF response.kind = "no_choices"
            THEN [content |-> None, attempts |-> attempt]
            ELSE Attempt(responses, attempt + 1, max_retries)

call_llm_api(responses) == Attempt(responses, 1, MaxRetries)

ResponseSeqs == [1..MaxRetries -> Responses]

\* everything call_llm_api can return
CallResults == {call_llm_api(responses).content : responses \in ResponseSeqs}

CallInit ==
    /\ HarvestIdle
    /\ PureIdle
    /\ jobs = NoJobs
    /\ old_indexes = NoOldIndexes
    /\ item = NoItem
    /\ summarizer = IdleSummarizer
    /\ RestIdle
    /\ llm_call \in [responses : ResponseSeqs, result : {NoCall}]

CallLLM ==
    /\ llm_call.result = NoCall
    /\ llm_call' = [llm_call EXCEPT !.result = call_llm_api(llm_call.responses)]
    /\ UNCHANGED <<harvestVars, pureVars, restVars, jobs, old_indexes, item, summarizer>>

CallNext == CallLLM

SpecCall == CallInit /\ [][CallNext]_vars

RetriedKinds == {"status", "http_error", "url_error", "malformed", "no_choices"}

\* C20: after an attempt that ended in a non-2xx response, a transport
\* error, a malformed body or a 200 response without choices, the request
\* is made again unless that was the last of the configured attempts.
C20_RetriesEveryFailure ==
    llm_call.result # NoCall =>
        \A k \in 1..(MaxRetries - 1) :
           (k <= llm_call.result.attempts /\ llm_call.responses[k].kind \in RetriedKinds)
               => llm_call.result.attempts >= k + 1

----------------------------------------------------------------------------
(* The pipeline on one video folder: process_video_folder, one step per     *)
(* chunk and one for the final summary.  The process can be killed.        *)

\* if summary: / if final_summary:
Truthy(text) == text \notin {None, ""}

\* a run that treats no folder as processed
NeverProcessed(it) == FALSE

\* final_summary_file.exists()
AlreadyProcessed(it) == it.final # None

\* a run that finds no chunk summary on disk
NeverExists(it, i) == FALSE

\* summary_file.exists()
SummaryExists(it, i) == i \in DOMAIN it.summaries

\* a run that writes final_summary.txt whatever the call returned
SaveFinalAlways(it, final_summary) ==
    [it EXCEPT !.final = IF final_summary = None THEN "" ELSE final_summary]

\* if final_summary: write final_summary.txt
SaveFinal(it, final_summary) ==
    IF Truthy(final_summary) THEN [it EXCEPT !.final = final_summary] ELSE it

ChunkSummary(i, summary) == [chunk_number |-> i, summary |-> summary]

\* up to save_chunks
StartItem ==
    /\ summarizer.pc = "idle"
    /\ IF AlreadyProcessed(item)
       THEN /\ item' = item
            /\ summarizer' = [IdleSummarizer EXCEPT !.returned = "True"]
       ELSE /\ item' = [item EXCEPT !.chunk_files = 1..item.chunks]
            /\ summarizer' = [IdleSummarizer EXCEPT !.pc = "chunks", !.i = 1]
    /\ UNCHANGED <<harvestVars, pureVars, restVars, jobs, old_indexes, llm_call>>

\* one pass of for i, chunk in enumerate(chunks, 1); `results` is what the
\* call to the service can return
ChunkPass(results) ==
    /\ summarizer.pc = "chunks"
    /\ summarizer.i <= item.chunks
    /\ LET i == summarizer.i
       IN IF SummaryExists(item, i)
          THEN /\ item' = item
               /\ summarizer' = [summarizer EXCEPT
                                   !.i = i + 1,
                                   !.chunk_summaries =
                                       Append(@, ChunkSummary(i, item.summaries[i]))]
          ELSE \E summary \in results :
                  /\ item' = IF Truthy(summary)
                             THEN [item EXCEPT !.summaries = Put(@, i, summary)]
                             ELSE item
                  /\ summarizer' = [summarizer EXCEPT
                                      !.i = i + 1,
                                      !.chunk_calls = Append(@, i),
                                      !.chunk_summaries =
                                          IF Truthy(summary)
                                          THEN Append(@, ChunkSummary(i, summary))
                                          ELSE @]
    /\ UNCHANGED <<harvestVars, pureVars, restVars, jobs, old_indexes>>

SummarizeChunk == ChunkPass(CallResults) /\ UNCHANGED llm_call

\* after the loop: the final call and the return
FinalPass(results) ==
    /\ summarizer.pc = "chunks"
    /\ summarizer.i = item.chunks + 1
    /\ \E final_summary \in results :
          /\ item' = SaveFinal(item, final_summary)
          /\ summarizer' = [summarizer EXCEPT
                              !.pc = "idle",
                              !.final_calls = 1,
                              !.final_summary = final_summary,
                              !.returned = IF Truthy(final_summary) THEN "True" ELSE "False"]
    /\ UNCHANGED <<harvestVars, pureVars, restVars, jobs, old_indexes>>

SummarizeFinal == FinalPass(CallResults) /\ UNCHANGED llm_call

Kill ==
    /\ summarizer.pc = "chunks"
    /\ summarizer' = [summarizer EXCEPT !.pc = "idle", !.returned = "killed"]
    /\ UNCHANGED <<item, harvestVars, pureVars, restVars, jobs, old_indexes, llm_call>>

SummarizeInit ==
    /\ HarvestIdle
    /\ PureIdle
    /\ jobs = NoJobs
    /\ old_indexes = NoOldIndexes
    /\ item \in {[NoItem EXCEPT !.chunks = n] : n \in 1..NumChunks}
    /\ summarizer = IdleSummarizer
    /\ RestIdle
    /\ llm_call = [responses |-> <<>>, result |-> NoCall]

SummarizeNext == StartItem \/ SummarizeChunk \/ SummarizeFinal \/ Kill

SpecSummarize == SummarizeInit /\ [][SummarizeNext]_vars

\* the step is one pass of the chunk loop
ChunkStep == summarizer.pc = "chunks" /\ summarizer'.i = summarizer.i + 1

\* the step ends a run that was not killed
RunEnds ==
    /\ summarizer.pc = "chunks"
    /\ summarizer'.pc = "idle"
    /\ summarizer'.returned # "killed"

\* C16: in a run on an item that is not done, the service is called for a
\* chunk exactly when the chunk has no persisted summary, a persisted summary
\* is loaded as it is, and a run that ends has made the final call.
C16_Resumes ==
    [][/\ ChunkStep =>
            LET i == summarizer.i
            IN IF i \in DOMAIN item.summaries
               THEN /\ summarizer'.chunk_calls = summarizer.chunk_calls
                    /\ summarizer'.chunk_summaries =
                           Append(summarizer.chunk_summaries,
                                  ChunkSummary(i, item.summaries[i]))
                    /\ item' = item
               ELSE summarizer'.chunk_calls = Append(summarizer.chunk_calls, i)
       /\ RunEnds => summarizer'.final_calls = 1]_vars

\* chunks 1 to 3 with summaries 1 and 2 persisted: only chunk 3 was sent,
\* then the final call was made
C16_Witness ==
    /\ item.chunks = 3
    /\ summarizer.chunk_calls = <<3>>
    /\ Len(summarizer.chunk_summaries) = 3
    /\ summarizer.final_calls = 1

\* C17: once final_summary.txt exists, no step changes any artifact of the
\* item and no step makes a call to the service.
C17_DoneIsTerminal ==
    [][item.final # None =>
          /\ item' = item
          /\ summarizer'.chunk_calls = <<>>
          /\ summarizer'.final_calls = 0]_vars

\* a later run on a done item returned without a call
C17_Witness ==
    /\ item.final # None
    /\ summarizer.returned = "True"
    /\ summarizer.final_calls = 0
    /\ summarizer.chunk_calls = <<>>

\* C18: a final call that returns nothing or an empty text writes no
\* final_summary.txt and leaves the chunk summaries as they are, the run
\* returns False, and the next run goes through the item again.
C18_FinalFailureRetryable ==
    [][/\ (RunEnds /\ ~Truthy(summarizer'.final_summary)) =>
              /\ item' = item
              /\ item'.final = None
              /\ summarizer'.returned = "False"
       /\ (summarizer.pc = "idle" /\ item.final = None) => summarizer'.pc = "chunks"]_vars

\* a later run that loaded every chunk summary and whose final call failed again
C18_Witness ==
    /\ summarizer.returned = "False"
    /\ summarizer.final_calls = 1
    /\ summarizer.chunk_calls = <<>>
    /\ item.chunks > 1
    /\ DOMAIN item.summaries = 1..item.chunks
    /\ item.final = None

\* C19: the final call is made, and the item is done, only when every chunk
\* of the item has a chunk summary.
C19_FinalNeedsAllChunks ==
    /\ summarizer.final_calls = 1 => Len(summarizer.chunk_summaries) = item.chunks
    /\ item.final # None => DOMAIN item.summaries = 1..item.chunks

----------------------------------------------------------------------------
(* The pipeline on one video folder with the client's attempts spelled out: *)
(* the service answers every call of the run with the same `responses`.     *)

ClientInit ==
    /\ HarvestIdle
    /\ PureIdle
    /\ jobs = NoJobs
    /\ old_indexes = NoOldIndexes
    /\ item \in {[NoItem EXCEPT !.chunks = n] : n \in 1..NumChunks}
    /\ summarizer = IdleSummarizer
    /\ RestIdle
    /\ llm_call \in [responses : ResponseSeqs, result : {NoCall}]

\* summary = call_llm_api(chunk['text'], "chunk") and the rest of the pass
CallForChunk ==
    /\ ~SummaryExists(item, summarizer.i)
    /\ LET result == call_llm_api(llm_call.responses)
       IN /\ llm_call' = [llm_call EXCEPT !.result = result]
          /\ ChunkPass({result.content})

\* final_summary = call_llm_api(combined_summaries, "final") and the return
CallForFinal ==
    LET result == call_llm_api(llm_call.responses)
    IN /\ llm_call' = [llm_call EXCEPT !.result = result]
       /\ FinalPass({result.content})

ClientNext == StartItem \/ CallForChunk \/ CallForFinal

SpecClient == ClientInit /\ [][ClientNext]_vars

AllAttemptsFail(responses) == \A k \in DOMAIN responses : responses[k].kind # "completion"

----------------------------------------------------------------------------
(* The chunk loop of process_video_folder with the call to the service and  *)
(* the write of its result as two steps, and a process that can be killed   *)
(* between any two of them.  A run that follows a killed run remembers      *)
(* where that run was: the chunk it was at, the chunks it had asked the     *)
(* service for and the chunks it had a summary of.                          *)

Extend(s, extra) ==
    [k \in DOMAIN s \cup DOMAIN extra |-> IF k \in DOMAIN extra THEN extra[k] ELSE s[k]]

NoCrash == [summary |-> None, crashed_at |-> 0, requested |-> {}, completed |-> {}]

ChunkNumbers(chunk_summaries) ==
    {chunk_summaries[k].chunk_number : k \in DOMAIN chunk_summaries}

\* what the killed run leaves to be remembered
CrashOf(s) ==
    IF s.returned = "killed"
    THEN [summary |-> None, crashed_at |-> s.i, requested |-> Range(s.chunk_calls),
          completed |-> ChunkNumbers(s.chunk_summaries)]
    ELSE NoCrash

\* a run that keeps the summaries in memory until the loop is over
WriteLater(it, i, summary) == it

\* with open(summary_file, 'w', encoding='utf-8') as f: f.write(summary)
WriteSummary(it, i, summary) == [it EXCEPT !.summaries = Put(@, i, summary)]

\* up to save_chunks
CrashStart ==
    /\ summarizer.pc = "idle"
    /\ IF AlreadyProcessed(item)
       THEN /\ item' = item
            /\ summarizer' = Extend([IdleSummarizer EXCEPT !.returned = "True"], NoCrash)
       ELSE /\ item' = [item EXCEPT !.chunk_files = 1..item.chunks]
            /\ summarizer' = Extend([IdleSummarizer EXCEPT !.pc = "chunks", !.i = 1],
                                    CrashOf(summarizer))
    /\ UNCHANGED <<harvestVars, pureVars, restVars, jobs, old_indexes, llm_call>>

\* a pass of the chunk loop up to the return of call_llm_api; a summary found
\* on disk is loaded, a call that returns nothing ends the pass
ChunkCall ==
    /\ summarizer.pc = "chunks"
    /\ summarizer.i <= item.chunks
    /\ LET i == summarizer.i
       IN IF SummaryExists(item, i)
          THEN summarizer' = [summarizer EXCEPT
                                 !.i = i + 1,
                                 !.chunk_summaries =
                                     Append(@, ChunkSummary(i, item.summaries[i]))]
          ELSE \E summary \in CallResults :
                  summarizer' = IF Truthy(summary)
                                THEN [summarizer EXCEPT !.pc = "write",
                                                        !.summary = summary,
                                                        !.chunk_calls = Append(@, i)]
                                ELSE [summarizer EXCEPT !.i = i + 1,
                                                        !.chunk_calls = Append(@, i)]
    /\ UNCHANGED <<item, harvestVars, pureVars, restVars, jobs, old_indexes, llm_call>>

\* the rest of the pass: the summary file is written and the summary appended
ChunkWrite ==
    /\ summarizer.pc = "write"
    /\ item' = WriteSummary(item, summarizer.i, summarizer.summary)
    /\ summarizer' = [summarizer EXCEPT
                        !.pc = "chunks",
                        !.i = @ + 1,
                        !.summary = None,
                        !.chunk_summaries =
                            Append(@, ChunkSummary(summarizer.i, summarizer.summary))]
    /\ UNCHANGED <<harvestVars, pureVars, restVars, jobs, old_indexes, llm_call>>

\* the process is killed; killed while it writes a summary file it leaves
\* no file or a file without the text
Crash ==
    /\ summarizer.pc \in {"chunks", "write"}
    /\ summarizer' = [summarizer EXCEPT !.pc = "idle", !.returned = "killed"]
    /\ \/ item' = item
       \/ /\ summarizer.pc = "write"
          /\ item' = WriteSummary(item, summarizer.i, "")
    /\ UNCHANGED <<harvestVars, pureVars, restVars, jobs, old_indexes, llm_call>>

CrashInit ==
    /\ HarvestIdle
    /\ PureIdle
    /\ jobs = NoJobs
    /\ old_indexes = NoOldIndexes
    /\ item \in {[NoItem EXCEPT !.chunks = n] : n \in 1..NumChunks}
    /\ summarizer = Extend(IdleSummarizer, NoCrash)
    /\ RestIdle
    /\ llm_call = [responses |-> <<>>, result |-> NoCall]

CrashNext == CrashStart \/ ChunkCall \/ ChunkWrite \/ SummarizeFinal \/ Crash

SpecCrash == CrashInit /\ [][CrashNext]_vars

\* the step asks the service for the summary of chunk summarizer.i
CallsForChunk == Len(summarizer'.chunk_calls) = Len(summarizer.chunk_calls) + 1

\* every summary the run holds is on disk
HeldArePersisted(s, it) == ChunkNumbers(s.chunk_summaries) \subseteq DOMAIN it.summaries

\* no step takes a summary file away or changes it
SummariesKept ==
    \A k \in DOMAIN item.summaries :
        k \in DOMAIN item'.summaries /\ item'.summaries[k] = item.summaries[k]

\* C29 as claimed: the summary of a chunk is on disk before the service is
\* asked for the next chunk, a kill at any point takes no summary file away,
\* and the run after a kill asks the service for no chunk before the one the
\* killed run was at.
C29_CrashLosesInFlightOnly ==
    [][/\ HeldArePersisted(summarizer, item)
       /\ SummariesKept
       /\ (CallsForChunk /\ summarizer.crashed_at > 0) =>
             summarizer.i >= summarizer.crashed_at]_vars

\* C29 as amended: the summary of a chunk is on disk before the service is
\* asked for the next chunk, a kill at any point takes no summary file away,
\* and the run after a kill asks the service for no chunk the killed run had
\* a summary of: only for the chunk that run was at, the chunks after it and
\* the chunks for which that run's call had returned nothing.
C29_CompletedChunksKept ==
    [][/\ HeldArePersisted(summarizer, item)
       /\ HeldArePersisted(summarizer', item')
       /\ SummariesKept
       /\ (CallsForChunk /\ summarizer.crashed_at > 0) =>
             /\ summarizer.i \notin summarizer.completed
             /\ \/ summarizer.i >= summarizer.crashed_at
                \/ summarizer.i \in summarizer.requested]_vars

\* killed while chunk 2 of 3 was in flight with the summary of chunk 1 on disk;
\* the next run asked for chunks 2 and 3 only and finished
C29_Witness ==
    /\ item.chunks = 3
    /\ summarizer.crashed_at = 2
    /\ summarizer.completed = {1}
    /\ summarizer.chunk_calls = <<2, 3>>
    /\ Len(summarizer.chunk_summaries) = 3
    /\ summarizer.returned = "True"

----------------------------------------------------------------------------
(* The ledger specification with a control file that can be left damaged:  *)
(* a writer killed after `open(control_file, 'w')` leaves a file that does *)
(* not parse.                                                              *)

\* the control file is truncated by a write that does not finish
DamageControl ==
    /\ control_file.state = "ok"
    /\ control_file' = CorruptFile
    /\ UNCHANGED <<index_file, run, disk, config, now, pureVars, otherVars>>

ControlLoadInit ==
    /\ index_file = AbsentFile
    /\ run = IdleRun
    /\ disk = EmptyDisk
    /\ control_file = AbsentFile
    /\ config \in [redownload_deleted : BOOLEAN, content_type : {"audio", "video"}]
    /\ now = 0
    /\ PureIdle
    /\ OthersIdle

ControlLoadNext ==
    \/ StartRun({1}, PlainDiscoveries, CachedFlags)
    \/ PlanAndFetch(TRUE)
    \/ Refresh
    \/ DamageControl

SpecControlLoad == ControlLoadInit /\ [][ControlLoadNext]_vars

\* C27: when the control file is absent or does not parse, load_control_file
\* returns the record without entries and with total 0, and a run that has
\* reached its planning step can take it, its plan being every id of the index.
C27_ControlLoadNeverFatal ==
    control_file.state \in {"absent", "corrupt"} =>
        /\ Get(Control, "downloaded_videos", EmptyDict) = EmptyDict
        /\ Get(Get(Control, "statistics", EmptyDict), "total_videos", NoDate - 1) = 0
        /\ run.pc = "plan" =>
              /\ ENABLED PlanAndFetch(TRUE)
              /\ PlanFor(run.index_data, run.skip_existing) = IndexedIds(run.index_data)

C27_Witness ==
    /\ control_file.state = "corrupt"
    /\ run.pc = "plan"
    /\ run.skip_existing
    /\ IndexedIds(run.index_data) = Ids
    /\ \E f \in Folders : disk[f].info # NoInfo /\ disk[f].audio
    /\ PlanFor(run.index_data, run.skip_existing) = Ids

----------------------------------------------------------------------------
(* Segmenter: create_5min_chunks of content_summarizer.py.  A subtitle is   *)
(* its start time and its text; a chunk's text is the sequence of the texts *)
(* joined into it.                                                          *)

\* start times a transcript can hold, in seconds
EventTimes == {0, 290, 305, 610, 1250}

ChunkDurations == {300, 100}

\* the time-ordered sequences of exactly n start times
OrderedTimes(n) == {s \in [1..n -> EventTimes] : \A k \in 1..(n - 1) : s[k] <= s[k + 1]}

Transcript(times) == [k \in DOMAIN times |-> [start_time |-> times[k], text |-> k]]

Transcripts == {Transcript(times) : times \in UNION {OrderedTimes(n) : n \in 0..MaxEvents}}

\* what starting every new chunk at its first subtitle would record
UnalignedStart(start_time, duration) == start_time

\* chunk_start_time = subtitle['start_time'] - (subtitle['start_time'] % chunk_duration)
AlignedStart(start_time, duration) == start_time - (start_time % duration)

\* what counting the windows rather than the chunks would number
NumberEveryWindow(current_chunk, chunk_number) == chunk_number + 1

\* chunk_number += 1 under `if current_chunk:`
NextNumber(current_chunk, chunk_number) ==
    IF current_chunk # <<>> THEN chunk_number + 1 ELSE chunk_number

\* what joining the texts of current_chunk[1:] would record
ChunkFromSecond(chunk_number, chunk_start_time, end_time, current_chunk) ==
    [chunk_number |-> chunk_number,
     start_time |-> chunk_start_time,
     end_time |-> end_time,
     text |-> [k \in 1..(Len(current_chunk) - 1) |-> current_chunk[k + 1].text]]

\* the dict appended to chunks; ' '.join([s['text'] for s in current_chunk])
Chunk(chunk_number, chunk_start_time, end_time, current_chunk) ==
    [chunk_number |-> chunk_number,
     start_time |-> chunk_start_time,
     end_time |-> end_time,
     text |-> [k \in DOMAIN current_chunk |-> current_chunk[k].text]]

\* chunks.append(...) under `if current_chunk:`
Emit(out, chunk_number, chunk_start_time, end_time, current_chunk) ==
    IF current_chunk # <<>>
    THEN Append(out, Chunk(chunk_number, chunk_start_time, end_time, current_chunk))
    ELSE out

RECURSIVE ChunkLoop(_, _, _, _, _, _, _)
\* the loop over the subtitles from the k-th on, and the final chunk after it
ChunkLoop(subs, duration, k, out, current_chunk, chunk_start_time, chunk_number) ==
    IF k > Len(subs)
    THEN Emit(out, chunk_number, chunk_start_time,
              IF current_chunk # <<>> THEN current_chunk[Len(current_chunk)].start_time + 60
              ELSE 0,
              current_chunk)
    ELSE IF subs[k].start_time >= chunk_start_time + duration
         THEN ChunkLoop(subs, duration, k + 1,
                        Emit(out, chunk_number, chunk_start_time,
                             chunk_start_time + duration, current_chunk),
                        <<subs[k]>>,
                        AlignedStart(subs[k].start_time, duration),
                        NextNumber(current_chunk, chunk_number))
         ELSE ChunkLoop(subs, duration, k + 1, out, Append(current_chunk, subs[k]),
                        chunk_start_time, chunk_number)

create_5min_chunks(subs, duration) == ChunkLoop(subs, duration, 1, <<>>, <<>>, 0, 1)

SegmentInit ==
    /\ HarvestIdle
    /\ PureIdle
    /\ jobs = NoJobs
    /\ old_indexes = NoOldIndexes
    /\ SummaryIdle
    /\ subtitles \in Transcripts
    /\ chunk_duration \in ChunkDurations
    /\ chunks = NotSegmented
    /\ TruncateIdle
    /\ batch = IdleBatch
    /\ harvest = IdleHarvest

\* chunks = create_5min_chunks(subtitles)
Segment ==
    /\ chunks = NotSegmented
    /\ chunks' = create_5min_chunks(subtitles, chunk_duration)
    /\ UNCHANGED <<harvestVars, pureVars, jobs, old_indexes, summaryVars, subtitles,
                   chunk_duration, truncateVars, batch, harvest>>

SegmentNext == Segment

SpecSegment == SegmentInit /\ [][SegmentNext]_vars

\* the subtitles joined into chunk c
EventsOf(c) == {subtitles[c.text[k]] : k \in DOMAIN c.text}

StartsOf(cs) == [k \in DOMAIN cs |-> cs[k].start_time]

\* C22: the start of every chunk emitted for a time-ordered transcript is the
\* largest multiple of the window that is at most the start time of the chunk's
\* first subtitle, every subtitle of the chunk starts in [start, start + window),
\* and subtitles at 0, 290, 305, 610 with a window of 300 give exactly the chunks
\* starting at 0, 300, 600, the one at 290 being in the first.
C22_ChunkBoundaries ==
    chunks # NotSegmented =>
        /\ \A k \in DOMAIN chunks :
              LET c == chunks[k]
                  first == subtitles[c.text[1]].start_time
              IN /\ c.text # <<>>
                 /\ c.start_time % chunk_duration = 0
                 /\ c.start_time <= first
                 /\ first < c.start_time + chunk_duration
                 /\ \A e \in EventsOf(c) :
                       /\ c.start_time <= e.start_time
                       /\ e.start_time < c.start_time + chunk_duration
        /\ (subtitles = Transcript(<<0, 290, 305, 610>>) /\ chunk_duration = 300) =>
              /\ StartsOf(chunks) = <<0, 300, 600>>
              /\ chunks[1].text = <<1, 2>>
              /\ chunks[2].text = <<3>>
              /\ chunks[3].text = <<4>>

C22_Witness ==
    /\ subtitles = Transcript(<<0, 290, 305, 610>>)
    /\ chunk_duration = 300
    /\ chunks # NotSegmented
    /\ Len(chunks) = 3

\* C23: the chunks of every transcript are numbered 1, 2, ..., n in the order they
\* are emitted, also when the first subtitle starts after the first window and when
\* windows without subtitles lie between two chunks, and the empty transcript gives
\* the empty sequence of chunks.
C23_DenseNumbers ==
    chunks # NotSegmented =>
        /\ \A k \in DOMAIN chunks : chunks[k].chunk_number = k
        /\ DOMAIN chunks = 1..Len(chunks)
        /\ subtitles = <<>> => chunks = <<>>

C23_Witness ==
    /\ chunks # NotSegmented
    /\ Len(chunks) = 2
    /\ subtitles # <<>>
    /\ subtitles[1].start_time >= chunk_duration
    /\ chunks[2].start_time >= chunks[1].start_time + 3 * chunk_duration
    /\ chunks[2].chunk_number = 2

RECURSIVE JoinedTexts(_)
\* the texts of the chunks one after the other, in chunk order
JoinedTexts(cs) ==
    IF cs = <<>> THEN <<>>
    ELSE JoinedTexts(SubSeq(cs, 1, Len(cs) - 1)) \o cs[Len(cs)].text

\* C35: the chunks of a time-ordered transcript partition it: the texts of the
\* chunks joined in chunk order are the texts of the subtitles in input order,
\* each exactly once; no chunk is without text; and the start times of the
\* chunks are strictly increasing.
C35_SegmentationPartitions ==
    chunks # NotSegmented =>
        /\ JoinedTexts(chunks) = [k \in DOMAIN subtitles |-> subtitles[k].text]
        /\ \A k \in DOMAIN chunks : chunks[k].text # <<>>
        /\ \A j, k \in DOMAIN chunks : j < k => chunks[j].start_time < chunks[k].start_time

\* four subtitles in two chunks of two, with windows without subtitles between
C35_Witness ==
    /\ chunks # NotSegmented
    /\ Len(subtitles) = 4
    /\ Len(chunks) = 2
    /\ Len(chunks[1].text) = 2
    /\ Len(chunks[2].text) = 2
    /\ chunks[2].start_time > chunks[1].start_time + chunk_duration

----------------------------------------------------------------------------
(* Context truncation: truncate_text_to_context as call_llm_api uses it.    *)
(* A text is its length in characters; the text put in the request is a     *)
(* prefix of it, given by its length, with or without the truncation note.  *)

\* len("\n\n[Note: Content truncated to fit context length]")
NoteLength == 49

\* max_context - 1000
ReservedTokens == 1000

\* max_tokens * 4
CharsPerToken == 4

\* text[:max_chars - 100]
NoteRoom == 100

ContextLengths == {512, 1000, 1010, 1024, 1025, 1100, 2048, 4096}

TextLengths == {0, 40, 96, 97, 400, 4192, 4193, 20000}

Min(a, b) == IF a <= b THEN a ELSE b

Max(a, b) == IF a >= b THEN a ELSE b

\* len(text[:stop]) for a text of n characters
SliceLength(n, stop) == IF stop >= 0 THEN Min(stop, n) ELSE Max(n + stop, 0)

Unchanged(n) == [prefix |-> n, note |-> FALSE]

truncate_text_to_context(n, max_tokens) ==
    LET max_chars == max_tokens * CharsPerToken
    IN IF n <= max_chars
       THEN Unchanged(n)
       ELSE [prefix |-> SliceLength(n, max_chars - NoteRoom), note |-> TRUE]

\* truncated_text in call_llm_api
RequestText(n, context_length) ==
    truncate_text_to_context(n, context_length - ReservedTokens)

LengthOf(t) == t.prefix + (IF t.note THEN NoteLength ELSE 0)

TruncateInit ==
    /\ HarvestIdle
    /\ PureIdle
    /\ jobs = NoJobs
    /\ old_indexes = NoOldIndexes
    /\ SummaryIdle
    /\ SegmentIdle
    /\ batch = IdleBatch
    /\ harvest = IdleHarvest
    /\ text_length \in TextLengths
    /\ max_context \in ContextLengths
    /\ truncated_text = NotTruncated

\* truncated_text = truncate_text_to_context(text, available_tokens)
Truncate ==
    /\ truncated_text = NotTruncated
    /\ truncated_text' = RequestText(text_length, max_context)
    /\ UNCHANGED <<harvestVars, pureVars, jobs, old_indexes, summaryVars, segmentVars,
                   batch, harvest, text_length, max_context>>

TruncateNext == Truncate

SpecTruncate == TruncateInit /\ [][TruncateNext]_vars

\* C30: for every text and every configured context length, the text placed in
\* the request is the text unchanged when it has at most
\* 4 * (context length - 1000) characters and otherwise a prefix of it followed
\* by the truncation note, and in both cases it has at most
\* 4 * (context length - 1000) characters.
C30_TruncationBound ==
    truncated_text # NotTruncated =>
        LET limit == CharsPerToken * (max_context - ReservedTokens)
        IN /\ IF text_length <= limit
              THEN truncated_text = Unchanged(text_length)
              ELSE truncated_text.note /\ truncated_text.prefix <= text_length
           /\ LengthOf(truncated_text) <= limit

----------------------------------------------------------------------------
(* The summarization batch: main and process_channel of                     *)
(* content_summarizer.py.  What a channel directory and a video folder hold *)
(* and what the service answers is chosen when the loop reaches them.       *)

Contents == {None, "", "summary"}

\* the video folders process_video_folder can be given
VideoFolders ==
    {[kind |-> k] : k \in {"no_srt", "already_processed", "unparsable", "raises"}}
        \cup {[kind |-> "transcript", chunk_results |-> r, final_result |-> f] :
                 r \in UNION {[1..n -> {None, "summary"}] : n \in 1..NumChunks},
                 f \in Contents}

\* what process_video_folder returns on a folder, or that it raises
process_video_folder(folder) ==
    CASE folder.kind = "no_srt" -> "False"
      [] folder.kind = "already_processed" -> "True"
      [] folder.kind = "unparsable" -> "False"
      [] folder.kind = "raises" -> "raise"
      [] folder.kind = "transcript" ->
            IF Truthy(folder.final_result) THEN "True" ELSE "False"

\* what a channel's output directory can hold; "raises" is a directory that
\* cannot be listed
ChannelDirs == {[kind |-> "missing"], [kind |-> "raises"]}
                  \cup {[kind |-> "listed", video_folders |-> n] : n \in 0..MaxVideoFolders}

NoFolder == [kind |-> "none"]

StartedBatch(n) ==
    [pc |-> "channels", channels |-> n, c |-> 1,
     successful_channels |-> 0, failed_channels |-> 0,
     video_folders |-> 0, f |-> 1, processed_count |-> 0, failed_count |-> 0,
     folder |-> NoFolder, summaries |-> <<>>, exit_status |-> None]

\* main up to the loop over channels_to_summarize
BatchStart ==
    /\ batch.pc = "idle"
    /\ \E n \in 1..NumChannels : batch' = StartedBatch(n)
    /\ UNCHANGED <<harvestVars, pureVars, jobs, old_indexes, summaryVars, textVars, harvest>>

\* process_channel up to the loop over video_folders, and main's counting of
\* a channel that returned False or raised
ChannelStart ==
    /\ batch.pc = "channels"
    /\ batch.c <= batch.channels
    /\ \E dir \in ChannelDirs :
          IF dir.kind = "listed" /\ dir.video_folders > 0
          THEN batch' = [batch EXCEPT !.pc = "folders", !.video_folders = dir.video_folders,
                                      !.f = 1, !.processed_count = 0, !.failed_count = 0,
                                      !.folder = NoFolder]
          ELSE batch' = [batch EXCEPT !.failed_channels = @ + 1, !.c = @ + 1,
                                      !.folder = NoFolder]
    /\ UNCHANGED <<harvestVars, pureVars, jobs, old_indexes, summaryVars, textVars, harvest>>

\* one turn of the loop over video_folders
FolderStep ==
    /\ batch.pc = "folders"
    /\ batch.f <= batch.video_folders
    /\ \E folder \in VideoFolders :
          LET returned == process_video_folder(folder)
          IN batch' = [batch EXCEPT
                          !.processed_count = IF returned = "True" THEN @ + 1 ELSE @,
                          !.failed_count = IF returned = "True" THEN @ ELSE @ + 1,
                          !.f = @ + 1,
                          !.folder = folder]
    /\ UNCHANGED <<harvestVars, pureVars, jobs, old_indexes, summaryVars, textVars, harvest>>

\* the channel summary, return processed_count > 0, and main's counting
ChannelEnd ==
    /\ batch.pc = "folders"
    /\ batch.f > batch.video_folders
    /\ batch' = [batch EXCEPT
                    !.pc = "channels",
                    !.c = @ + 1,
                    !.successful_channels = IF batch.processed_count > 0 THEN @ + 1 ELSE @,
                    !.failed_channels = IF batch.processed_count > 0 THEN @ ELSE @ + 1,
                    !.summaries = Append(@, [processed |-> batch.processed_count,
                                             failed |-> batch.failed_count,
                                             total |-> batch.video_folders]),
                    !.folder = NoFolder]
    /\ UNCHANGED <<harvestVars, pureVars, jobs, old_indexes, summaryVars, textVars, harvest>>

\* the final summary; main returns and the interpreter exits with status 0
ExitStatus(b) == 0

BatchEnd ==
    /\ batch.pc = "channels"
    /\ batch.c > batch.channels
    /\ batch' = [batch EXCEPT !.pc = "exited", !.exit_status = ExitStatus(batch)]
    /\ UNCHANGED <<harvestVars, pureVars, jobs, old_indexes, summaryVars, textVars, harvest>>

BatchInit ==
    /\ HarvestIdle
    /\ PureIdle
    /\ OthersIdle

BatchNext == BatchStart \/ ChannelStart \/ FolderStep \/ ChannelEnd \/ BatchEnd

SpecBatch == BatchInit /\ [][BatchNext]_vars

\* every chunk call of the folder failed
AllChunksFailed(folder) ==
    /\ folder.kind = "transcript"
    /\ \A k \in DOMAIN folder.chunk_results : ~Truthy(folder.chunk_results[k])

\* C24: a video folder without a transcript, one whose chunk calls all failed
\* and one whose processing raises is counted in the channel's failed_count, and
\* the loop goes on to the next folder until the channel summary counts every
\* folder of the channel.
C24_ItemFailureIsolated ==
    [][/\ (batch.pc = "folders" /\ batch'.pc = "folders" /\ batch'.f = batch.f + 1) =>
             ((\/ batch'.folder.kind \in {"no_srt", "raises"}
               \/ AllChunksFailed(batch'.folder)) =>
                  /\ batch'.failed_count = batch.failed_count + 1
                  /\ batch'.processed_count = batch.processed_count)
       /\ (batch.pc = "folders" /\ batch'.pc = "channels") =>
             batch.processed_count + batch.failed_count = batch.video_folders]_vars

\* C25: the summarization batch works through every selected channel, and when
\* it has exited its exit status is a failure exactly when a channel or a video
\* folder failed.
C25_ExitStatusReflectsFailures ==
    batch.pc = "exited" =>
        /\ batch.successful_channels + batch.failed_channels = batch.channels
        /\ batch.exit_status # 0 <=>
              \/ batch.failed_channels > 0
              \/ \E k \in DOMAIN batch.summaries : batch.summaries[k].failed > 0

----------------------------------------------------------------------------
(* The harvest batch: process_channels_batch and main of                    *)
(* podcast_harvester.py.  A channel's ledgers are kept as sets of ids: the  *)
(* ids in its index, the ids with an entry in its control file and the ids  *)
(* whose files are in its directory.                                        *)

\* a JSON number where a string is expected
JsonNumber == "<number>"

ValidConfig(name) ==
    [url |-> "u", channel_name |-> name, content_type |-> "audio", cutoff_date |-> "2024-01-01"]

Without(cfg, field) == [k \in DOMAIN cfg \ {field} |-> cfg[k]]

\* the channel configurations a configuration file can list
ChannelConfigs ==
    UNION {{ValidConfig(name),
            Without(ValidConfig(name), "channel_name"),
            Without(ValidConfig(name), "cutoff_date"),
            [ValidConfig(name) EXCEPT !.content_type = "podcast"],
            [ValidConfig(name) EXCEPT !.cutoff_date = "01/01/2024"],
            [ValidConfig(name) EXCEPT !.cutoff_date = JsonNumber]} : name \in ChannelNames}

\* datetime.strptime(value, "%Y-%m-%d")
strptime(value) ==
    IF value = JsonNumber THEN "TypeError"
    ELSE IF value = "2024-01-01" THEN "ok"
    ELSE "ValueError"

\* validate_channel_config: "True", "False", or "raise" when an exception
\* other than ValueError leaves it
validate_channel_config(cfg) ==
    IF \E field \in {"url", "channel_name", "content_type", "cutoff_date"} : ~Has(cfg, field)
    THEN "False"
    ELSE IF cfg["content_type"] \notin {"audio", "video"} THEN "False"
    ELSE IF strptime(cfg["cutoff_date"]) = "ValueError" THEN "False"
    ELSE IF strptime(cfg["cutoff_date"]) = "TypeError" THEN "raise"
    ELSE "True"

\* config.get('channel_name', f'Channel_{i}')
ResultKey(cfg, i) == Get(cfg, "channel_name", "Channel_" \o ToString(i))

\* what discovery lists for a channel, or that it failed
Listings == {[kind |-> "error"]} \cup {[kind |-> "listed", ids |-> S] : S \in SUBSET Ids}

\* download_channel_with_index on a valid configuration: the ledger it
\* leaves, what it materialized and what it returned
ChannelOutcomes(ledger) ==
    UNION {
        IF ledger.index = {} /\ listing.kind = "error"
        THEN {[ledger |-> ledger, fetched |-> {}, returned |-> FALSE]}
        ELSE LET index == IF listing.kind = "listed" THEN ledger.index \cup listing.ids
                          ELSE ledger.index
                 to_download == index \ ledger.entries
             IN IF to_download = {}
                THEN {[ledger |-> [ledger EXCEPT !.index = index], fetched |-> {},
                       returned |-> TRUE]}
                ELSE {[ledger |-> [ledger EXCEPT !.index = index, !.disk = @ \cup fetched],
                       fetched |-> fetched,
                       returned |-> fetched = to_download] : fetched \in SUBSET to_download}
        : listing \in Listings}

\* main up to the loop of process_channels_batch
HarvestStart ==
    /\ harvest.pc \in {"idle", "exited"}
    /\ \E configs \in SeqsUpTo(ChannelConfigs, NumChannels) \ {<<>>} :
          harvest' = [pc |-> "batch", ledgers |-> harvest.ledgers, configs |-> configs,
                      i |-> 1, results |-> EmptyDict, returned |-> None,
                      fetched |-> [name \in ChannelNames |-> {}], exit_status |-> None]
    /\ UNCHANGED <<harvestVars, pureVars, jobs, old_indexes, summaryVars, textVars, batch>>

\* one turn of the loop over channels_config; an exception that leaves
\* validate_channel_config ends the process with a traceback
ChannelTurn ==
    /\ harvest.pc = "batch"
    /\ harvest.i <= Len(harvest.configs)
    /\ LET cfg == harvest.configs[harvest.i]
           valid == validate_channel_config(cfg)
       IN CASE valid = "raise" ->
                  harvest' = [harvest EXCEPT !.pc = "exited", !.exit_status = 1,
                                             !.returned = "raise"]
            [] valid = "False" ->
                  harvest' = [harvest EXCEPT
                                 !.results = Put(@, ResultKey(cfg, harvest.i), FALSE),
                                 !.returned = "invalid",
                                 !.i = @ + 1]
            [] valid = "True" ->
                  \E outcome \in ChannelOutcomes(harvest.ledgers[cfg["channel_name"]]) :
                     harvest' = [harvest EXCEPT
                                    !.ledgers[cfg["channel_name"]] = outcome.ledger,
                                    !.fetched[cfg["channel_name"]] = @ \cup outcome.fetched,
                                    !.results = Put(@, cfg["channel_name"], outcome.returned),
                                    !.returned = IF outcome.returned THEN "True" ELSE "False",
                                    !.i = @ + 1]
    /\ UNCHANGED <<harvestVars, pureVars, jobs, old_indexes, summaryVars, textVars, batch>>

\* if any(not success for success in results.values()): sys.exit(1)
ExitOnFailure ==
    /\ harvest.pc = "batch"
    /\ harvest.i > Len(harvest.configs)
    /\ \E k \in DOMAIN harvest.results : ~harvest.results[k]
    /\ harvest' = [harvest EXCEPT !.pc = "exited", !.exit_status = 1]
    /\ UNCHANGED <<harvestVars, pureVars, jobs, old_indexes, summaryVars, textVars, batch>>

\* the control refresh of every channel directory, the summarizer run, and
\* the end of main
RefreshAndExit ==
    /\ harvest.pc = "batch"
    /\ harvest.i > Len(harvest.configs)
    /\ \A k \in DOMAIN harvest.results : harvest.results[k]
    /\ harvest' = [harvest EXCEPT
                      !.pc = "exited",
                      !.exit_status = 0,
                      !.ledgers = [name \in ChannelNames |->
                                      [@[name] EXCEPT !.entries = @ \cup harvest.ledgers[name].disk]]]
    /\ UNCHANGED <<harvestVars, pureVars, jobs, old_indexes, summaryVars, textVars, batch>>

HarvestBatchInit ==
    /\ HarvestIdle
    /\ PureIdle
    /\ OthersIdle

HarvestBatchNext == HarvestStart \/ ChannelTurn \/ ExitOnFailure \/ RefreshAndExit

SpecHarvestBatch == HarvestBatchInit /\ [][HarvestBatchNext]_vars

\* a configuration with a required field missing or invalid
InvalidConfig(cfg) ==
    \/ \E field \in {"url", "channel_name", "content_type", "cutoff_date"} : ~Has(cfg, field)
    \/ cfg["content_type"] \notin {"audio", "video"}
    \/ strptime(cfg["cutoff_date"]) # "ok"

\* C26: in a turn of the batch loop on a channel whose configuration is invalid
\* the channel is recorded as failed and no ledger changes, a channel whose
\* discovery or fetch fails is recorded as failed, and in both cases the loop
\* goes on to the next channel.
C26_ChannelIsolation ==
    [][(harvest.pc = "batch" /\ harvest.i <= Len(harvest.configs)) =>
          LET cfg == harvest.configs[harvest.i]
              key == ResultKey(cfg, harvest.i)
          IN /\ InvalidConfig(cfg) =>
                   /\ harvest'.pc = "batch"
                   /\ harvest'.i = harvest.i + 1
                   /\ Has(harvest'.results, key) /\ ~harvest'.results[key]
                   /\ harvest'.ledgers = harvest.ledgers
             /\ harvest'.returned = "False" =>
                   /\ harvest'.pc = "batch"
                   /\ harvest'.i = harvest.i + 1
                   /\ Has(harvest'.results, key) /\ ~harvest'.results[key]]_vars

\* the next run's plan for a channel: the indexed ids without a control entry
NextPlan(ledger) == ledger.index \ ledger.entries

\* C28: when a harvest batch has ended, every item the fetcher materialized
\* during it has an entry in its channel's control file and is not in the
\* next run's plan, whether or not another channel of the batch failed.
C28_RefreshedBeforeExit ==
    harvest.pc = "exited" =>
        \A name \in ChannelNames :
            /\ harvest.fetched[name] \subseteq harvest.ledgers[name].entries
            /\ harvest.fetched[name] \cap NextPlan(harvest.ledgers[name]) = {}

----------------------------------------------------------------------------
(* The pipeline on one video folder that holds transcripts in several       *)
(* languages, run with any --language.  The text of chunk k of a transcript *)
(* is the transcript's language and k; a chunk summary is what the service  *)
(* made it from.                                                            *)

Languages == {"pl", "en"}

ChunkText(language, chunk_number) == [language |-> language, chunk_number |-> chunk_number]

NoText == ChunkText(None, 0)

SummaryOf(chunk_text) == [summary_of |-> chunk_text]

\* call_llm_api(chunk['text'], "chunk"): a summary of the text, or None
ChunkAnswers(chunk_text) == {SummaryOf(chunk_text), SummaryOf(NoText)}

\* the srt files the glob can list first
FirstListed(srt_files) == srt_files

\* the transcript the run reads: the first file with the preferred language
\* in its name, or srt_files[0]
PreferredSrt(srt_files, preferred_language) ==
    IF preferred_language \in srt_files THEN {preferred_language}
    ELSE FirstListed(srt_files)

\* up to save_chunks, for any --language
LanguageStart ==
    /\ summarizer.pc = "idle"
    /\ \E preferred_language \in Languages :
          LET idle == Extend(IdleSummarizer, [srt_file_used |-> None,
                                              preferred_language |-> preferred_language])
          IN IF item.srt_files = {}
             THEN /\ item' = item
                  /\ summarizer' = [idle EXCEPT !.returned = "False"]
             ELSE \E preferred_srt \in PreferredSrt(item.srt_files, preferred_language) :
                     IF AlreadyProcessed(item)
                     THEN /\ item' = item
                          /\ summarizer' = [idle EXCEPT !.returned = "True",
                                                        !.srt_file_used = preferred_srt]
                     ELSE /\ item' = [item EXCEPT !.chunk_files = 1..item.chunks]
                          /\ summarizer' = [idle EXCEPT !.pc = "chunks", !.i = 1,
                                                        !.srt_file_used = preferred_srt]
    /\ UNCHANGED <<harvestVars, pureVars, restVars, jobs, old_indexes, llm_call>>

\* one pass of the chunk loop over the chunks of the transcript the run reads
LanguageChunk ==
    /\ summarizer.pc = "chunks"
    /\ summarizer.i <= item.chunks
    /\ LET i == summarizer.i
       IN IF SummaryExists(item, i)
          THEN /\ item' = item
               /\ summarizer' = [summarizer EXCEPT
                                   !.i = i + 1,
                                   !.chunk_summaries =
                                       Append(@, ChunkSummary(i, item.summaries[i]))]
          ELSE \E summary \in ChunkAnswers(ChunkText(summarizer.srt_file_used, i)) :
                  /\ item' = IF summary # SummaryOf(NoText)
                             THEN WriteSummary(item, i, summary)
                             ELSE item
                  /\ summarizer' = [summarizer EXCEPT
                                      !.i = i + 1,
                                      !.chunk_calls = Append(@, i),
                                      !.chunk_summaries =
                                          IF summary # SummaryOf(NoText)
                                          THEN Append(@, ChunkSummary(i, summary))
                                          ELSE @]
    /\ UNCHANGED <<harvestVars, pureVars, restVars, jobs, old_indexes, llm_call>>

\* a harvest run with other subtitle languages adds a transcript to the folder
AddTranscript ==
    /\ \E language \in Languages \ item.srt_files :
          item' = [item EXCEPT !.srt_files = @ \cup {language}]
    /\ UNCHANGED <<summarizer, harvestVars, pureVars, restVars, jobs, old_indexes, llm_call>>

LanguageInit ==
    /\ HarvestIdle
    /\ PureIdle
    /\ jobs = NoJobs
    /\ old_indexes = NoOldIndexes
    /\ item \in {Extend([NoItem EXCEPT !.chunks = n], [srt_files |-> files]) :
                    n \in 1..NumChunks, files \in SUBSET Languages}
    /\ summarizer = Extend(IdleSummarizer, [srt_file_used |-> None, preferred_language |-> "pl"])
    /\ RestIdle
    /\ llm_call = [responses |-> <<>>, result |-> NoCall]

LanguageNext == LanguageStart \/ LanguageChunk \/ SummarizeFinal \/ AddTranscript

SpecLanguage == LanguageInit /\ [][LanguageNext]_vars

\* C33: every chunk summary a run holds, loaded from disk ones included, was
\* made from the text of the chunk that has its number in the transcript
\* the run reads, whichever transcript or --language an earlier run had.
C33_LoadedSummaryMatchesChunk ==
    summarizer.pc = "chunks" =>
        \A k \in DOMAIN summarizer.chunk_summaries :
            LET held == summarizer.chunk_summaries[k]
            IN held.summary = SummaryOf(ChunkText(summarizer.srt_file_used, held.chunk_number))

----------------------------------------------------------------------------
(* The ledger specification with the control refresh of another process as *)
(* two steps: create_control_file opens .download_control.json for writing, *)
(* which truncates it, and then dumps the record it built.  The run of this *)
(* process can plan in between.                                            *)

Refresher == "batch"

\* create_control_file up to with open(control_file, 'w', ...) as f:
RewriteOpen ==
    /\ jobs[Refresher].pc = "idle"
    /\ \E info_files \in Orderings(InfoFiles) :
          jobs' = [jobs EXCEPT ![Refresher] =
                      Extend([IdleJob EXCEPT
                                 !.pc = "control_open",
                                 !.read_control = control_file.state,
                                 !.todo = <<create_control_file(
                                                load_existing_control_file(control_file),
                                                should_preserve_deleted_records(config),
                                                scan_channel_directory(disk, info_files))>>],
                             [before |-> load_control_file(control_file)])]
    /\ control_file' = CorruptFile
    /\ UNCHANGED <<index_file, run, disk, config, now, pureVars, old_indexes, summaryVars,
                   restVars>>

\* json.dump(control_data, f, ...) and the end of the with block
RewriteClose ==
    /\ jobs[Refresher].pc = "control_open"
    /\ control_file' = OkFile(Head(jobs[Refresher].todo))
    /\ jobs' = [jobs EXCEPT ![Refresher] = IdleJob]
    /\ UNCHANGED <<index_file, run, disk, config, now, pureVars, old_indexes, summaryVars,
                   restVars>>

RewriteNext ==
    \/ StartRun({1}, PlainDiscoveries, CachedFlags)
    \/ PlanAndFetch(TRUE)
    \/ RewriteOpen
    \/ RewriteClose

SpecRewrite == Init /\ [][RewriteNext]_vars

\* the run plans while the other process is between its open and its dump
PlansDuringRewrite ==
    /\ run.pc = "plan"
    /\ run'.pc = "idle"
    /\ run.skip_existing
    /\ jobs[Refresher].pc = "control_open"

\* C34: a plan computed while another process rewrites the channel's control
\* file includes no item whose main media file is on disk and that the
\* control file records both before and after the rewrite.
C34_PlanDuringRewrite ==
    [][PlansDuringRewrite =>
          \A x \in Ids :
             /\ x \in OnDisk(jobs[Refresher].before, disk)
             /\ x \in OnDisk(Head(jobs[Refresher].todo), disk)
             => x \notin PlanFor(run.index_data, run.skip_existing)]_vars

----------------------------------------------------------------------------
(* The pipeline on one video folder with the two writes that end a run as   *)
(* two steps: final_summary.txt, then summary_metadata.json.  The process   *)
(* can be killed between any two steps.                                     *)

NoMetadata == [total_chunks |-> -1, processed_chunks |-> -1]

\* metadata = {..., 'total_chunks': len(chunks), 'processed_chunks': len(chunk_summaries)}
Metadata(it, chunk_summaries) ==
    [total_chunks |-> it.chunks, processed_chunks |-> Len(chunk_summaries)]

\* after the loop: the final call and, if it returned a summary, the write of
\* final_summary.txt
FinalWrite ==
    /\ summarizer.pc = "chunks"
    /\ summarizer.i = item.chunks + 1
    /\ \E final_summary \in CallResults :
          /\ item' = SaveFinal(item, final_summary)
          /\ summarizer' = IF Truthy(final_summary)
                           THEN [summarizer EXCEPT !.pc = "metadata",
                                                   !.final_calls = 1,
                                                   !.final_summary = final_summary]
                           ELSE [summarizer EXCEPT !.pc = "idle",
                                                   !.final_calls = 1,
                                                   !.final_summary = final_summary,
                                                   !.returned = "False"]
    /\ UNCHANGED <<harvestVars, pureVars, restVars, jobs, old_indexes, llm_call>>

\* the write of summary_metadata.json and the return
MetadataWrite ==
    /\ summarizer.pc = "metadata"
    /\ item' = [item EXCEPT !.metadata = Metadata(item, summarizer.chunk_summaries)]
    /\ summarizer' = [summarizer EXCEPT !.pc = "idle", !.returned = "True"]
    /\ UNCHANGED <<harvestVars, pureVars, restVars, jobs, old_indexes, llm_call>>

\* the process is killed, in the chunk loop or between the two writes
KillAnywhere ==
    /\ summarizer.pc \in {"chunks", "metadata"}
    /\ summarizer' = [summarizer EXCEPT !.pc = "idle", !.returned = "killed"]
    /\ UNCHANGED <<item, harvestVars, pureVars, restVars, jobs, old_indexes, llm_call>>

MetadataInit ==
    /\ HarvestIdle
    /\ PureIdle
    /\ jobs = NoJobs
    /\ old_indexes = NoOldIndexes
    /\ item \in {Extend([NoItem EXCEPT !.chunks = n], [metadata |-> NoMetadata]) :
                    n \in 1..NumChunks}
    /\ summarizer = IdleSummarizer
    /\ RestIdle
    /\ llm_call = [responses |-> <<>>, result |-> NoCall]

MetadataNext == StartItem \/ SummarizeChunk \/ FinalWrite \/ MetadataWrite \/ KillAnywhere

SpecMetadata == MetadataInit /\ [][MetadataNext]_vars

\* C36: whenever no run is at work on an item that is done (final_summary.txt
\* exists), summary_metadata.json with total_chunks and processed_chunks
\* exists too, whichever runs were killed at whichever step.
C36_DoneHasMetadata ==
    (summarizer.pc = "idle" /\ item.final # None) =>
        /\ item.metadata # NoMetadata
        /\ item.metadata.total_chunks = item.chunks

----------------------------------------------------------------------------
(* The ledger specification with steps 3 to 5 of a run reporting what they  *)
(* did: the plan, the URLs handed to the fetch tool, whether the tool was   *)
(* called and what the run returned.  A detail probe may answer without a   *)
(* webpage_url.                                                             *)

FetchVideoSet ==
    {Video(i, "a", 1) : i \in Ids}
        \cup {[Video(i, "a", 1) EXCEPT !.webpage_url = NoUrl] : i \in Ids}

FetchDiscoveries ==
    {[kind |-> "error"], [kind |-> "no_videos"]}
        \cup {[kind |-> "listed", probed |-> p] : p \in SeqsUpTo(FetchVideoSet, MaxList)}

FetchFlags == [force_reindex : BOOLEAN, skip_existing : BOOLEAN]

\* what steps 3 to 5 did, for a run that is over
Reported(to_download, video_urls, called, returned) ==
    [pc |-> "idle", to_download |-> to_download, video_urls |-> video_urls,
     called |-> called, returned |-> returned]

\* steps 2 to 5: the fetch tool, when it is called, materializes any part of
\* what it is handed and exits with or without an error
HandToFetcher ==
    /\ run.pc = "plan"
    /\ LET downloaded_ids == DownloadedIds(load_control_file(control_file), disk,
                                           config.redownload_deleted, run.skip_existing)
           to_download == videos_to_download(run.index_data, downloaded_ids)
           video_urls == VideoUrls(run.index_data, to_download)
       IN IF to_download = {} \/ video_urls = {}
          THEN /\ disk' = disk
               /\ run' = Reported(to_download, video_urls, FALSE, "True")
          ELSE \E fetched \in SUBSET video_urls, returned \in {"True", "False"} :
                  \E g \in [fetched -> Folders] :
                     /\ \A x, y \in fetched : g[x] = g[y] => x = y
                     /\ \A x \in fetched : disk[g[x]].info \in {NoInfo, x}
                     /\ disk' = Materialize(disk, fetched, g)
                     /\ run' = Reported(to_download, video_urls, TRUE, returned)
    /\ UNCHANGED <<index_file, control_file, config, now, pureVars, otherVars>>

FetchNext ==
    \/ StartRun({1}, FetchDiscoveries, FetchFlags)
    \/ HandToFetcher
    \/ Refresh

SpecFetch == Init /\ [][FetchNext]_vars

\* C37: a run that reached its plan handed the fetch tool one URL for every
\* id of the plan (the indexed ids that are not known), and it returned True
\* without calling the fetch tool only when the plan was empty.
C37_PlanIsHanded ==
    (run.pc = "idle" /\ Has(run, "returned")) =>
        /\ run.video_urls = run.to_download
        /\ (run.returned = "True" /\ ~run.called) => run.to_download = {}

----------------------------------------------------------------------------
(* The index specification with every run as one step,                      *)
(* download_channel_with_index from its first line to its return, one run   *)
(* right after the other.  A run that is over reports its cutoff date,      *)
(* whether it called create_channel_index, the index it held at the end,    *)
(* what it returned and how the run before it ended.                        *)

NoRun == [cutoff_date |-> NoDate, returned |-> "nothing", held_saved |-> FALSE]

\* what a later run remembers of the run r before it
RunBefore(r, file) ==
    IF Has(r, "returned")
    THEN [cutoff_date |-> r.cutoff_date, returned |-> r.returned,
          held_saved |-> file.state = "ok" /\ r.index_data = file.data]
    ELSE NoRun

\* step 1: load_index_file unless --force-reindex
LoadCached(file, force_reindex, cutoff_date, t) ==
    IF force_reindex THEN EmptyDict ELSE load_index_file(file, cutoff_date, t)

\* what steps 2 to 5 return for the index the run holds; `outcome` is what
\* download_videos_from_list returns when it is called
FetchReturns(index_data, skip_existing, outcome) ==
    LET to_download == PlanFor(index_data, skip_existing)
    IN IF to_download = {} \/ VideoUrls(index_data, to_download) = {}
       THEN "True" ELSE outcome

WholeRun ==
    /\ run.pc = "idle"
    /\ now < MaxClock
    /\ \E cutoff_date \in Dates, flag \in IndexFlags, discovery \in PlainDiscoveries,
          outcome \in {"True", "False"} :
          LET t == now + 1
              loaded == LoadCached(index_file, flag.force_reindex, cutoff_date, t)
              created == create_channel_index(cutoff_date, discovery, t)
              saves == IndexSaves(loaded, created, cutoff_date, t)
              discovered == \/ loaded = EmptyDict
                            \/ cutoff_date \notin Range(Get(loaded, "cutoff_dates", <<>>))
                            \/ loaded["current_cutoff_date"] # cutoff_date
              index_data == IF loaded = EmptyDict THEN created.returned
                            ELSE IF saves = <<>> THEN loaded
                            ELSE saves[Len(saves)]
              returned == IF index_data = EmptyDict THEN "False"
                          ELSE IF loaded = EmptyDict
                                  /\ Get(index_data, "videos", EmptyDict) = EmptyDict
                               THEN "True"
                          ELSE FetchReturns(index_data, flag.skip_existing, outcome)
          IN /\ index_file' = IF saves = <<>> THEN index_file
                              ELSE OkFile(saves[Len(saves)])
             /\ now' = IF saves = <<>> THEN now ELSE t
             /\ run' = [pc |-> "idle", cutoff_date |-> cutoff_date,
                        force_reindex |-> flag.force_reindex, discovered |-> discovered,
                        index_data |-> index_data, returned |-> returned,
                        previous |-> RunBefore(run, index_file)]
    /\ UNCHANGED <<disk, control_file, config, pureVars, otherVars>>

CacheNext == WholeRun

SpecCache == IndexInit /\ [][CacheNext]_vars

\* a run has returned True, and the step is a run with the same cutoff date
\* and without --force-reindex
FollowsCompletedRun ==
    /\ Has(run, "returned")
    /\ run.returned = "True"
    /\ run'.cutoff_date = run.cutoff_date
    /\ ~run'.force_reindex

\* the run of the step called no discovery and left the saved index alone
UsesCache ==
    /\ ~run'.discovered
    /\ index_file'.state = index_file.state
    /\ \A field \in {"videos", "video_ids", "cutoff_dates", "index_history"} :
          Get(index_file'.data, field, None) = Get(index_file.data, field, None)

\* after a run for cutoff date d has returned True, the run right after it
\* with the same d and no --force-reindex calls no discovery and leaves the
\* videos, video_ids, cutoff_dates and index_history of the saved index
\* unchanged.
C38_CachingIsStable == [][FollowsCompletedRun => UsesCache]_vars

\* C38: after a run for cutoff date d has returned True holding the index
\* that is saved on file, the run right after it with the same d and no
\* --force-reindex calls no discovery and leaves the videos, video_ids,
\* cutoff_dates and index_history of the saved index unchanged.
C38_CachingIsStableWithIndex ==
    [][(/\ FollowsCompletedRun
        /\ index_file.state = "ok"
        /\ run.index_data = index_file.data) => UsesCache]_vars

\* a run for the cutoff date of the run before it, which had returned True
\* with its index saved, used the index of two videos without discovery
C38_Witness ==
    /\ Has(run, "previous")
    /\ run.previous.returned = "True"
    /\ run.previous.held_saved
    /\ run.previous.cutoff_date = run.cutoff_date
    /\ ~run.force_reindex
    /\ ~run.discovered
    /\ run.index_data = index_file.data
    /\ Cardinality(DOMAIN index_file.data["videos"]) = 2

----------------------------------------------------------------------------
(* Merging two discovery results in either order *)

MergeVideoSet == {Video(i, t, 1) : i \in Ids, t \in Titles}

MergeInit ==
    /\ HarvestIdle
    /\ lists \in [a : SeqsUpTo(MergeVideoSet, MaxList), b : SeqsUpTo(MergeVideoSet, MaxList)]
    /\ merged = NothingMerged
    /\ legacy = NoRecord
    /\ migrated = NothingLoaded
    /\ OthersIdle

\* update_unified_index on an empty index, A then B and B then A
MergeLists ==
    /\ merged.op = "none"
    /\ merged' = [op |-> "update",
                  ab |-> update_unified_index(
                            update_unified_index(EmptyDict, lists.a, 1, now),
                            lists.b, NumDates, now),
                  ba |-> update_unified_index(
                            update_unified_index(EmptyDict, lists.b, NumDates, now),
                            lists.a, 1, now)]
    /\ UNCHANGED <<lists, legacy, migrated, harvestVars, otherVars>>

\* merge_channel_indexes on the two date-specific files, in either file order
MergeSources ==
    /\ merged.op = "none"
    /\ LET sa == LegacyIndex(lists.a, 1, now)
           sb == LegacyIndex(lists.b, NumDates, now)
       IN merged' = [op |-> "sources",
                     ab |-> merge_channel_indexes(<<sa, sb>>, now),
                     ba |-> merge_channel_indexes(<<sb, sa>>, now)]
    /\ UNCHANGED <<lists, legacy, migrated, harvestVars, otherVars>>

MergeNext == MergeLists \/ MergeSources

SpecMerge == MergeInit /\ [][MergeNext]_vars

IdsOf(videos) == {videos[i].id : i \in DOMAIN videos}

\* the copies of `id` that reach the merge: every list element for
\* update_unified_index, the one copy each source file holds for
\* merge_channel_indexes
CopiesIn(videos, id) ==
    IF merged.op = "update"
    THEN {videos[i] : i \in {j \in DOMAIN videos : videos[j].id = id}}
    ELSE {DictFromList(videos)[k] : k \in {id} \cap IdsOf(videos)}

NoDuplicateIds(videos) ==
    \A i, j \in DOMAIN videos : videos[i].id = videos[j].id => i = j

RetainsLargest(videos) ==
    /\ DOMAIN videos = IdsOf(lists.a) \cup IdsOf(lists.b)
    /\ \A id \in DOMAIN videos :
          LET copies == CopiesIn(lists.a, id) \cup CopiesIn(lists.b, id)
          IN /\ videos[id] \in copies
             /\ \A v \in copies : SerializedLen(videos[id]) >= SerializedLen(v)

\* C8: merging A and B into an empty index, in either order, yields exactly
\* the union of the ids; the copy retained for an id is one of the largest
\* serialized size; and when A and B each hold the id once with different
\* sizes, both orders retain the same, larger copy.
C8_MergeCompleteness ==
    merged.op # "none" =>
        /\ RetainsLargest(merged.ab.videos)
        /\ RetainsLargest(merged.ba.videos)
        /\ \A id \in IdsOf(lists.a) \cap IdsOf(lists.b) :
              (/\ NoDuplicateIds(lists.a)
               /\ NoDuplicateIds(lists.b)
               /\ \E va \in CopiesIn(lists.a, id), vb \in CopiesIn(lists.b, id) :
                      SerializedLen(va) # SerializedLen(vb))
              => merged.ab.videos[id] = merged.ba.videos[id]

C8_Witness ==
    /\ merged.op = "update"
    /\ lists.a = <<Video("X", "a", 1), Video("Y", "ab", 1)>>
    /\ lists.b = <<Video("X", "ab", 1)>>
    /\ merged.ab.videos["X"].title = "ab"
    /\ merged.ba.videos["X"].title = "ab"
    /\ DOMAIN merged.ba.videos = {"X", "Y"}

====
